---- MODULE Spec2Model ----
(***************************************************************************)
(* A model of the file-operations facade of pubky-tools: FileOperations    *)
(* (lib/file-operations), the in-memory CacheManager (lib/cache-manager)   *)
(* and the store calls of PubkyClient (lib/pubky-client).                  *)
(*                                                                         *)
(* Strings are sequences of one-character strings; file content is a       *)
(* sequence of UTF-16 code units (0..65535) and stored data is a sequence  *)
(* of bytes (0..255), so that TextEncoder/TextDecoder are conversions and  *)
(* not the identity.                                                       *)
(***************************************************************************)
EXTENDS Integers, Sequences, FiniteSets, TLC

\* ------------------------------------------------------------------------
\* JavaScript string primitives used by the code
\* ------------------------------------------------------------------------

\* String.prototype.startsWith
StartsWith(s, pre) ==
  /\ Len(pre) <= Len(s)
  /\ SubSeq(s, 1, Len(pre)) = pre

\* String.prototype.endsWith
EndsWith(s, suf) ==
  /\ Len(suf) <= Len(s)
  /\ SubSeq(s, Len(s) - Len(suf) + 1, Len(s)) = suf

\* String.prototype.indexOf, 1-based; 0 when sub does not occur
IndexOf(s, sub) ==
  LET hits == {i \in 1..(Len(s) - Len(sub) + 1) : SubSeq(s, i, i + Len(sub) - 1) = sub}
  IN IF hits = {} THEN 0 ELSE CHOOSE i \in hits : \A j \in hits : i <= j

\* String.prototype.includes
Includes(s, sub) == IndexOf(s, sub) # 0

\* String.prototype.replace(pattern, "") with a string pattern: removes the
\* first occurrence of pat, wherever it is
RemoveFirst(s, pat) ==
  LET i == IndexOf(s, pat)
  IN IF i = 0 THEN s
     ELSE SubSeq(s, 1, i - 1) \o SubSeq(s, i + Len(pat), Len(s))

\* String.prototype.split("/"): "" gives [""], "a/" gives ["a", ""]
RECURSIVE Split(_)
Split(s) ==
  LET i == IndexOf(s, <<"/">>)
  IN IF i = 0 THEN <<s>>
     ELSE <<SubSeq(s, 1, i - 1)>> \o Split(SubSeq(s, i + 1, Len(s)))

\* Array.prototype.join("/")
RECURSIVE Join(_)
Join(parts) ==
  IF Len(parts) = 0 THEN <<>>
  ELSE IF Len(parts) = 1 THEN parts[1]
  ELSE parts[1] \o <<"/">> \o Join(Tail(parts))

\* String.prototype.trim: strips leading and trailing white space
RECURSIVE Trim(_)
Trim(s) ==
  IF Len(s) = 0 THEN s
  ELSE IF s[1] = " " THEN Trim(Tail(s))
  ELSE IF s[Len(s)] = " " THEN Trim(SubSeq(s, 1, Len(s) - 1))
  ELSE s

\* The reserved marker of homeserver entries that are not files
Sentinel == <<"P","u","b","k","y"," ","H","o","m","e","s","e","r","v","e","r">>

\* ------------------------------------------------------------------------
\* TextEncoder.encode and TextDecoder.decode (UTF-8)
\* ------------------------------------------------------------------------

IsHigh(u) == u >= 55296 /\ u <= 56319
IsLow(u)  == u >= 56320 /\ u <= 57343

\* the concatenation of the sequences f[lo], ..., f[hi]
RECURSIVE Flatten(_, _, _)
Flatten(f, lo, hi) ==
  IF lo > hi THEN <<>>
  ELSE IF lo = hi THEN f[lo]
  ELSE Flatten(f, lo, (lo + hi) \div 2) \o Flatten(f, (lo + hi) \div 2 + 1, hi)

\* what the code unit at position i contributes to the scalar values: a
\* surrogate pair is one code point (given at its high half), a lone
\* surrogate becomes U+FFFD
ScalarsAt(units, i) ==
  IF IsHigh(units[i]) /\ i < Len(units) /\ IsLow(units[i + 1])
    THEN <<65536 + (units[i] - 55296) * 1024 + (units[i + 1] - 56320)>>
  ELSE IF IsLow(units[i]) /\ i > 1 /\ IsHigh(units[i - 1]) THEN <<>>
  ELSE IF IsHigh(units[i]) \/ IsLow(units[i]) THEN <<65533>>
  ELSE <<units[i]>>

\* conversion of a JavaScript string to scalar values
ToScalars(units) ==
  Flatten([i \in 1..Len(units) |-> ScalarsAt(units, i)], 1, Len(units))

Utf8Bytes(cp) ==
  IF cp < 128 THEN <<cp>>
  ELSE IF cp < 2048 THEN <<192 + (cp \div 64), 128 + (cp % 64)>>
  ELSE IF cp < 65536
    THEN <<224 + (cp \div 4096), 128 + ((cp \div 64) % 64), 128 + (cp % 64)>>
  ELSE <<240 + (cp \div 262144), 128 + ((cp \div 4096) % 64),
         128 + ((cp \div 64) % 64), 128 + (cp % 64)>>

EncodeScalars(cps) ==
  Flatten([i \in 1..Len(cps) |-> Utf8Bytes(cps[i])], 1, Len(cps))

\* new TextEncoder().encode(content)
TextEncode(content) == EncodeScalars(ToScalars(content))

\* a decoded code point as UTF-16 code units
Utf16Units(cp) ==
  IF cp < 65536 THEN <<cp>>
  ELSE <<55296 + ((cp - 65536) \div 1024), 56320 + ((cp - 65536) % 1024)>>

\* The UTF-8 decoder of the Encoding Standard, without BOM handling.  Its
\* state between two bytes: need, the continuation bytes still expected;
\* cp, the code point so far; lo..hi, the range allowed for the next
\* continuation byte.
DecoderState(need, cp, lo, hi) == [need |-> need, cp |-> cp, lo |-> lo, hi |-> hi]

DecoderStart == DecoderState(0, 0, 128, 191)

\* one byte read when no continuation byte is expected: the code units it
\* gives and the state it leaves
Utf8Lead(b) ==
  IF b < 128 THEN [out |-> <<b>>, st |-> DecoderStart]
  ELSE IF b >= 194 /\ b <= 223
    THEN [out |-> <<>>, st |-> DecoderState(1, b - 192, 128, 191)]
  ELSE IF b >= 224 /\ b <= 239
    THEN [out |-> <<>>,
          st |-> DecoderState(2, b - 224, IF b = 224 THEN 160 ELSE 128,
                              IF b = 237 THEN 159 ELSE 191)]
  ELSE IF b >= 240 /\ b <= 244
    THEN [out |-> <<>>,
          st |-> DecoderState(3, b - 240, IF b = 240 THEN 144 ELSE 128,
                              IF b = 244 THEN 143 ELSE 191)]
  ELSE [out |-> <<65533>>, st |-> DecoderStart]

\* one byte read in state st: a byte outside the allowed range ends the
\* sequence with U+FFFD and is read again as a lead byte
Utf8Step(b, st) ==
  IF st.need = 0 THEN Utf8Lead(b)
  ELSE IF b < st.lo \/ b > st.hi
    THEN [out |-> <<65533>> \o Utf8Lead(b).out, st |-> Utf8Lead(b).st]
  ELSE IF st.need = 1
    THEN [out |-> Utf16Units(st.cp * 64 + (b - 128)), st |-> DecoderStart]
  ELSE [out |-> <<>>,
        st |-> DecoderState(st.need - 1, st.cp * 64 + (b - 128), 128, 191)]

\* the bytes at lo..hi read from state st, the range taken in two halves
RECURSIVE Utf8DecodeRange(_, _, _, _)
Utf8DecodeRange(bytes, lo, hi, st) ==
  IF lo > hi THEN [out |-> <<>>, st |-> st]
  ELSE IF lo = hi THEN Utf8Step(bytes[lo], st)
  ELSE CHOOSE res \in
         UNION {{[out |-> l.out \o r.out, st |-> r.st] :
                   r \in {Utf8DecodeRange(bytes, (lo + hi) \div 2 + 1, hi, l.st)}} :
                l \in {Utf8DecodeRange(bytes, lo, (lo + hi) \div 2, st)}} : TRUE

\* the bytes from position i on decoded: a sequence cut short by the end
\* of the input gives U+FFFD
Utf8Decode(bytes, i) ==
  CHOOSE units \in
    {r.out \o (IF r.st.need > 0 THEN <<65533>> ELSE <<>>) :
       r \in {Utf8DecodeRange(bytes, i, Len(bytes), DecoderStart)}} : TRUE

\* new TextDecoder().decode(data): ignoreBOM is false by default, so a
\* leading byte order mark EF BB BF is consumed and not part of the output
TextDecode(data) ==
  IF Len(data) >= 3 /\ SubSeq(data, 1, 3) = <<239, 187, 191>>
    THEN Utf8Decode(data, 4)
  ELSE Utf8Decode(data, 1)

\* ------------------------------------------------------------------------
\* Keys, contents and bounds of the model
\* ------------------------------------------------------------------------

\* pubky://u/pub/ : the writable root of owner u
Root == <<"p","u","b","k","y",":","/","/","u","/","p","u","b","/">>

KeyA        == Root \o <<"a">>          \* pubky://u/pub/a : a file under the root
KeyADir     == Root \o <<"a", "/">>     \* pubky://u/pub/a/ : trailing separator
KeyAX       == KeyADir \o <<"x",".","j","s","o","n">>   \* pubky://u/pub/a/x.json
KeyAY       == KeyADir \o <<"y">>
KeyB        == Root \o <<"b",".","t","x","t">>     \* pubky://u/pub/b.txt
KeyHidden   == Root \o <<".","h","i","d","d","e","n">>   \* pubky://u/pub/.hidden
KeySentinel == Root \o Sentinel
KeyDouble   == KeyADir \o <<"/", "b">>  \* pubky://u/pub/a//b
KeyBlank    == Root \o <<" ">>
DotPlaceholder == <<".","p","l","a","c","e","h","o","l","d","e","r">>

KeyPlaceholder == KeyADir \o DotPlaceholder
KeyUpperB   == Root \o <<"B">>         \* pubky://u/pub/B
KeyStray    == <<"s","c","h","e","m","e",":","/","/","o","t","h","e","r","/","/","b","a","d">>   \* scheme://other//bad

\* the keys the facade operations are called with
FilePaths == {KeyA, KeyAX, KeyADir, KeySentinel}

\* one run works on one of these sets of keys
Worlds == {{KeyAX, KeyADir}, {KeyA, KeySentinel}}

\* the directory arguments of listFiles, with and without trailing separator
DirPaths == {Root, KeyA, KeyADir}

\* file contents as UTF-16 code units: "", "x" and U+FEFF "x"
Contents == {<<>>, <<120>>, <<65279, 120>>}

\* the (path, content) pairs the write operations are called with
WriteArgs ==
  ({KeyA, KeyAX} \X Contents) \cup ({KeyADir} \X {<<>>, <<120>>})
    \cup {<<KeySentinel, <<>>>>}

\* number of clock steps the model takes
MaxTicks == 1

\* CacheManager.TTL_MS
TTL_MS == 30 * 60 * 1000

\* one clock step: long enough for every entry written before it to expire
TickMs == TTL_MS + 1

\* ------------------------------------------------------------------------
\* Values held by the cache and returned by the facade
\* ------------------------------------------------------------------------

\* A JavaScript string value is either text or the JSON.stringify of a
\* listing.  No content of the model is valid JSON text, so the two never
\* coincide and JSON.parse of text throws.
NullV     == [kind |-> "null", text |-> <<>>, files |-> <<>>]
Text(c)   == [kind |-> "text", text |-> c, files |-> <<>>]

\* JSON.stringify(files): name, path and isDirectory survive (size is a mock
\* random estimate and lastModified a mock time stamp; neither is modelled)
JsonStringify(fs) == [kind |-> "json", text |-> <<>>, files |-> fs]

\* JSON.parse(cached) throws on text that is not JSON
JsonParseThrows(v) == v.kind # "json"
JsonParse(v) == v.files

\* truthiness of a string-or-null value: null and "" are falsy
Truthy(v) == v # NullV /\ v # Text(<<>>)

\* ------------------------------------------------------------------------
\* CacheManager
\* ------------------------------------------------------------------------

CacheSet(c, path, data, t) ==
  [k \in (DOMAIN c) \cup {path} |->
     IF k = path
       THEN [path |-> path, data |-> data, timestamp |-> t, ttl |-> TTL_MS]
       ELSE c[k]]

CacheDelete(c, path) == [k \in (DOMAIN c) \ {path} |-> c[k]]

CacheClear(c) == [k \in {} |-> NullV]

Expired(entry, t) == t - entry.timestamp > TTL_MS

\* CacheManager.get that tests the data for truthiness: "" is a miss
CacheGetValue_falsy(c, path, t) ==
  IF path \notin DOMAIN c THEN NullV
  ELSE IF Expired(c[path], t) THEN NullV
  ELSE IF c[path].data = Text(<<>>) THEN NullV
  ELSE c[path].data

\* CacheManager.get: the value returned (an expired entry is a miss and is
\* removed by the lookup)
CacheGetValue(c, path, t) ==
  IF path \notin DOMAIN c THEN NullV
  ELSE IF Expired(c[path], t) THEN NullV
  ELSE c[path].data

\* the cache after CacheManager.get
CacheGetCache(c, path, t) ==
  IF path \in DOMAIN c /\ Expired(c[path], t) THEN CacheDelete(c, path) ELSE c

\* CacheManager.invalidate: no pattern clears the cache, otherwise every key
\* that contains the pattern is removed
CacheInvalidate(c, pathPattern) ==
  IF Len(pathPattern) = 0 THEN CacheClear(c)
  ELSE [k \in {q \in DOMAIN c : ~Includes(q, pathPattern)} |-> c[k]]

\* ------------------------------------------------------------------------
\* FileOperations helpers
\* ------------------------------------------------------------------------

NoParent == <<"\\null">>

\* FileOperations.getParentPath; NoParent stands for null
getParentPath(filePath) ==
  LET parts == Split(filePath) IN
  IF Len(parts) <= 3 THEN NoParent
  ELSE
    LET p1 == SubSeq(parts, 1, Len(parts) - 1)
        p2 == IF p1[Len(p1)] = <<>> THEN SubSeq(p1, 1, Len(p1) - 1) ELSE p1
    IN Join(p2) \o <<"/">>

\* listFiles: directory path normalised to end with the separator
NormalizePath(directoryPath) ==
  IF EndsWith(directoryPath, <<"/">>) THEN directoryPath
  ELSE directoryPath \o <<"/">>

\* ChildName with the whole relative path taken as the child's name
ChildName_wholePath(normalizedPath, url) ==
  IF Len(url) = 0 \/ url = normalizedPath \/ Includes(url, Sentinel) THEN <<>>
  ELSE
    LET relativePath == RemoveFirst(url, normalizedPath) IN
    IF \/ Len(relativePath) = 0
       \/ Includes(relativePath, Sentinel)
       \/ StartsWith(relativePath, <<".">>)
       \/ Includes(relativePath, <<"/", "/">>) THEN <<>>
    ELSE <<relativePath>>

\* ChildName without the test for a leading "."
ChildName_keepsDotfiles(normalizedPath, url) ==
  IF Len(url) = 0 \/ url = normalizedPath \/ Includes(url, Sentinel) THEN <<>>
  ELSE
    LET relativePath == RemoveFirst(url, normalizedPath) IN
    IF \/ Len(relativePath) = 0
       \/ Includes(relativePath, Sentinel)
       \/ Includes(relativePath, <<"/", "/">>) THEN <<>>
    ELSE
      LET segments == Split(relativePath)
          firstSegment == segments[1]
      IN IF Len(firstSegment) = 0 \/ Len(Trim(firstSegment)) = 0 THEN <<>>
         ELSE
           LET isDirectory == Len(segments) > 1 \/ EndsWith(relativePath, <<"/">>)
           IN <<IF isDirectory THEN firstSegment \o <<"/">> ELSE firstSegment>>

\* the loop body of listFiles for one url: <<>> when the url is skipped,
\* otherwise <<childName>> (a directory's child name ends with "/")
ChildName(normalizedPath, url) ==
  IF Len(url) = 0 \/ url = normalizedPath \/ Includes(url, Sentinel) THEN <<>>
  ELSE
    LET relativePath == RemoveFirst(url, normalizedPath) IN
    IF Len(relativePath) = 0 THEN <<>>
    ELSE IF \/ Includes(relativePath, Sentinel)
            \/ StartsWith(relativePath, <<".">>)
            \/ Includes(relativePath, <<"/", "/">>) THEN <<>>
    ELSE
      LET segments == Split(relativePath)
          firstSegment == segments[1]
      IN IF Len(firstSegment) = 0 \/ Len(Trim(firstSegment)) = 0 THEN <<>>
         ELSE
           LET isDirectory == Len(segments) > 1 \/ EndsWith(relativePath, <<"/">>)
           IN <<IF isDirectory THEN firstSegment \o <<"/">> ELSE firstSegment>>

\* an array push in place of Set.add: nothing is deduplicated
SetAdd_push(seq, x) == Append(seq, x)

\* Set.add in insertion order
SetAdd(seq, x) ==
  IF \E i \in 1..Len(seq) : seq[i] = x THEN seq ELSE Append(seq, x)

\* immediateChildren after the loop over allUrls, in insertion order
RECURSIVE ImmediateChildren(_, _, _)
ImmediateChildren(normalizedPath, allUrls, acc) ==
  IF Len(allUrls) = 0 THEN acc
  ELSE
    LET c == ChildName(normalizedPath, allUrls[1]) IN
    ImmediateChildren(normalizedPath, Tail(allUrls),
                      IF Len(c) = 0 THEN acc ELSE SetAdd(acc, c[1]))

\* the PubkyFile built for one child name
ToPubkyFile(normalizedPath, name) ==
  LET isDirectory == EndsWith(name, <<"/">>) IN
  [name |-> IF isDirectory THEN SubSeq(name, 1, Len(name) - 1) ELSE name,
   path |-> normalizedPath \o name,
   isDirectory |-> isDirectory]

\* collation order of the characters that occur in names
Collation ==
  <<" ", "_", "-", ":", ".", "/", "0", "1", "2", "3", "4", "5", "6", "7",
   "8", "9", "a", "A", "b", "B", "c", "C", "d", "D", "e", "E", "f", "F",
   "g", "G", "h", "H", "i", "I", "j", "J", "k", "K", "l", "L", "m", "M",
   "n", "N", "o", "O", "p", "P", "q", "Q", "r", "R", "s", "S", "t", "T",
   "u", "U", "v", "V", "w", "W", "x", "X", "y", "Y", "z", "Z">>

Rank(ch) == CHOOSE i \in 1..Len(Collation) : Collation[i] = ch

\* the primary weight of a character: a letter weighs the same in both cases
FirstLetter == Rank("a")

PrimaryWeight(ch) ==
  IF Rank(ch) < FirstLetter THEN Rank(ch)
  ELSE FirstLetter + ((Rank(ch) - FirstLetter) \div 2)

\* comparison of two strings by the primary weights of their characters
RECURSIVE PrimaryCompare(_, _)
PrimaryCompare(a, b) ==
  IF Len(a) = 0 /\ Len(b) = 0 THEN 0
  ELSE IF Len(a) = 0 THEN -1
  ELSE IF Len(b) = 0 THEN 1
  ELSE IF PrimaryWeight(a[1]) < PrimaryWeight(b[1]) THEN -1
  ELSE IF PrimaryWeight(a[1]) > PrimaryWeight(b[1]) THEN 1
  ELSE PrimaryCompare(Tail(a), Tail(b))

\* comparison of two strings by the ranks of their characters, case included
RECURSIVE RankCompare(_, _)
RankCompare(a, b) ==
  IF Len(a) = 0 /\ Len(b) = 0 THEN 0
  ELSE IF Len(a) = 0 THEN -1
  ELSE IF Len(b) = 0 THEN 1
  ELSE IF Rank(a[1]) < Rank(b[1]) THEN -1
  ELSE IF Rank(a[1]) > Rank(b[1]) THEN 1
  ELSE RankCompare(Tail(a), Tail(b))

\* String.prototype.localeCompare: negative, zero or positive; the letters
\* are compared without their case first, and the case decides between
\* strings that are otherwise equal (lower case first)
LocaleCompare(a, b) ==
  IF PrimaryCompare(a, b) # 0 THEN PrimaryCompare(a, b)
  ELSE RankCompare(a, b)

\* a comparator that orders by name only
CompareFiles_nameOnly(a, b) ==
  LocaleCompare(a.name, b.name)

\* the comparator of files.sort
CompareFiles(a, b) ==
  IF a.isDirectory /\ ~b.isDirectory THEN -1
  ELSE IF ~a.isDirectory /\ b.isDirectory THEN 1
  ELSE LocaleCompare(a.name, b.name)

\* stable insertion of f into a sorted sequence
RECURSIVE InsertSorted(_, _)
InsertSorted(sorted, f) ==
  IF Len(sorted) = 0 THEN <<f>>
  ELSE IF CompareFiles(f, sorted[1]) < 0 THEN <<f>> \o sorted
  ELSE <<sorted[1]>> \o InsertSorted(Tail(sorted), f)

\* Array.prototype.sort with CompareFiles (stable)
RECURSIVE SortFiles(_, _)
SortFiles(files, acc) ==
  IF Len(files) = 0 THEN acc
  ELSE SortFiles(Tail(files), InsertSorted(acc, files[1]))

\* listFiles from the store's answer to the sorted PubkyFile array
BuildListing(normalizedPath, allUrls) ==
  LET children == ImmediateChildren(normalizedPath, allUrls, <<>>)
      files == [i \in 1..Len(children) |-> ToPubkyFile(normalizedPath, children[i])]
  IN SortFiles(files, <<>>)

\* ------------------------------------------------------------------------
\* State
\* ------------------------------------------------------------------------

VARIABLES
  store,   \* the remote object store: key -> bytes, for the keys that exist
  cache,   \* CacheManager.cache: path -> CacheEntry
  now,     \* Date.now()
  last,    \* the facade call that ran last, with its result
  paths,   \* the keys this run calls the facade with
  recon    \* a directory reconstruction on its own: input and result

vars == <<store, cache, now, last, paths, recon>>

\* ------------------------------------------------------------------------
\* PubkyClient: each call either gets an answer ("ok"), fails ("fail": an
\* error response, a thrown error or a timeout before the store acted) or,
\* for the writes, times out although the store applies it ("late")
\* ------------------------------------------------------------------------

ReadOutcomes  == {"ok", "fail"}
WriteOutcomes == {"ok", "fail", "late"}

\* PubkyClient.put: the store after the call, and the returned boolean
PutStore(s, url, data, o) ==
  IF o = "fail" THEN s
  ELSE [k \in (DOMAIN s) \cup {url} |-> IF k = url THEN data ELSE s[k]]

PutResult(o) == o = "ok"

\* PubkyClient.delete
DeleteStore(s, url, o) ==
  IF o = "fail" THEN s ELSE [k \in (DOMAIN s) \ {url} |-> s[k]]

DeleteResult(o) == o = "ok"

\* PubkyClient.get: <<>> for null, <<data>> for the bytes of an existing key
GetResult(s, url, o) ==
  IF o = "ok" /\ url \in DOMAIN s THEN <<s[url]>> ELSE <<>>

\* the order in which the store lists its keys
StoreOrder ==
  <<KeyHidden \o <<"/">> \o DotPlaceholder, KeySentinel, KeyA, KeyADir,
    KeyPlaceholder, KeyADir \o <<"c", "/">> \o DotPlaceholder, KeyAX, KeyB>>

RECURSIVE KeysUnder(_, _, _)
KeysUnder(s, prefix, i) ==
  IF i > Len(StoreOrder) THEN <<>>
  ELSE (IF StoreOrder[i] \in DOMAIN s /\ StartsWith(StoreOrder[i], prefix)
          THEN <<StoreOrder[i]>> ELSE <<>>)
       \o KeysUnder(s, prefix, i + 1)

\* PubkyClient.list: the full keys under the prefix, [] when the call fails
ListResult(s, url, o) == IF o = "ok" THEN KeysUnder(s, url, 1) ELSE <<>>

\* ------------------------------------------------------------------------
\* FileOperations
\* ------------------------------------------------------------------------

\* the record of one facade call: arguments, the outcome of its store call,
\* the boolean it returned (ok), the value it returned, the store calls it
\* issued and whether its catch block ran; dest is the second path of a copy
\* or a move, and steps holds the outcome of each store call in calls
Call(op, path, content, useCache, outcome, ok, value, calls, threw) ==
  [op |-> op, path |-> path, content |-> content, useCache |-> useCache,
   outcome |-> outcome, ok |-> ok, value |-> value, calls |-> calls,
   threw |-> threw, dest |-> <<>>,
   steps |-> [i \in 1..Len(calls) |-> outcome]]

\* no call has returned a result that the caller still holds
Idle == Call("none", <<>>, <<>>, FALSE, "ok", TRUE, NullV, <<>>, FALSE)

\* the cache after a successful create: content cached, then the parent
\* pattern invalidated
CacheAfterCreate(c, filePath, content, t) ==
  LET c1 == CacheSet(c, filePath, Text(content), t)
      parentPath == getParentPath(filePath)
  IN IF parentPath # NoParent THEN CacheInvalidate(c1, parentPath) ELSE c1

\* createFile run on store s and cache c at time t: the store and the cache
\* it leaves and the record of the call
CreateFileRun(s, c, t, filePath, content, o) ==
  LET data == TextEncode(content)
      success == PutResult(o)
  IN [store |-> PutStore(s, filePath, data, o),
      cache |-> IF success THEN CacheAfterCreate(c, filePath, content, t) ELSE c,
      call |-> Call("createFile", filePath, content, FALSE, o, success, NullV,
                    <<"put">>, FALSE)]

createFile(filePath, content, o) ==
  LET r == CreateFileRun(store, cache, now, filePath, content, o)
  IN /\ last = Idle
     /\ store' = r.store
     /\ cache' = r.cache
     /\ last' = r.call
     /\ UNCHANGED <<now, paths, recon>>

\* readFile's path validation
InvalidPath(filePath) == Len(filePath) = 0 \/ Includes(filePath, Sentinel)

\* data.length === 0 ? "" : new TextDecoder().decode(data)
DecodeContent(data) == IF Len(data) = 0 THEN <<>> ELSE TextDecode(data)

\* readFile run on store s and cache c at time t: the cache it leaves and
\* the record of the call
ReadFileRun(s, c, t, filePath, useCache, o) ==
  LET cached == IF useCache THEN CacheGetValue(c, filePath, t) ELSE NullV
      c1 == IF useCache THEN CacheGetCache(c, filePath, t) ELSE c
      got == GetResult(s, filePath, o)
  IN IF InvalidPath(filePath)
       THEN [cache |-> c,
             call |-> Call("readFile", filePath, <<>>, useCache, o, FALSE,
                           NullV, <<>>, FALSE)]
     ELSE IF cached # NullV
       THEN [cache |-> c1,
             call |-> Call("readFile", filePath, <<>>, useCache, o, TRUE,
                           cached, <<>>, FALSE)]
     ELSE IF Len(got) > 0
       THEN [cache |-> CacheSet(c1, filePath, Text(DecodeContent(got[1])), t),
             call |-> Call("readFile", filePath, <<>>, useCache, o, TRUE,
                           Text(DecodeContent(got[1])), <<"get">>, FALSE)]
     ELSE [cache |-> c1,
           call |-> Call("readFile", filePath, <<>>, useCache, o, FALSE,
                         NullV, <<"get">>, FALSE)]

readFile(filePath, useCache, o) ==
  LET r == ReadFileRun(store, cache, now, filePath, useCache, o)
  IN /\ last = Idle
     /\ cache' = r.cache
     /\ last' = r.call
     /\ UNCHANGED <<store, now, paths, recon>>

\* an update that invalidates the parent pattern as createFile does
CacheAfterUpdate_invalidatesParent(c, filePath, content, t) ==
  CacheAfterCreate(c, filePath, content, t)

\* the cache after a successful update: content cached, nothing invalidated
CacheAfterUpdate(c, filePath, content, t) ==
  CacheSet(c, filePath, Text(content), t)

\* updateFile run on store s and cache c at time t
UpdateFileRun(s, c, t, filePath, content, o) ==
  [store |-> PutStore(s, filePath, TextEncode(content), o),
   cache |-> IF PutResult(o) THEN CacheAfterUpdate(c, filePath, content, t) ELSE c,
   call |-> Call("updateFile", filePath, content, FALSE, o, PutResult(o), NullV,
                 <<"put">>, FALSE)]

updateFile(filePath, content, o) ==
  /\ last = Idle
  /\ \E r \in {UpdateFileRun(store, cache, now, filePath, content, o)} :
       /\ store' = r.store
       /\ cache' = r.cache
       /\ last' = r.call
       /\ UNCHANGED <<now, paths, recon>>

\* the cache after a successful delete
CacheAfterDelete(c, filePath) ==
  LET c1 == CacheDelete(c, filePath)
      parentPath == getParentPath(filePath)
  IN IF parentPath # NoParent THEN CacheInvalidate(c1, parentPath) ELSE c1

\* deleteFile run on store s and cache c
DeleteFileRun(s, c, filePath, o) ==
  LET success == DeleteResult(o)
  IN [store |-> DeleteStore(s, filePath, o),
      cache |-> IF success THEN CacheAfterDelete(c, filePath) ELSE c,
      call |-> Call("deleteFile", filePath, <<>>, FALSE, o, success, NullV,
                    <<"delete">>, FALSE)]

deleteFile(filePath, o) ==
  LET r == DeleteFileRun(store, cache, filePath, o)
  IN /\ last = Idle
     /\ store' = r.store
     /\ cache' = r.cache
     /\ last' = r.call
     /\ UNCHANGED <<now, paths, recon>>

\* listFiles run on store s and cache c at time t: the cache it leaves and
\* the record of the call; the returned array is kept in value.files
ListFilesRun(s, c, t, directoryPath, useCache, o) ==
  LET normalizedPath == NormalizePath(directoryPath)
      cached == IF useCache THEN CacheGetValue(c, normalizedPath, t) ELSE NullV
      c1 == IF useCache THEN CacheGetCache(c, normalizedPath, t) ELSE c
      allUrls == ListResult(s, normalizedPath, o)
      files == BuildListing(normalizedPath, allUrls)
  IN IF Truthy(cached) /\ JsonParseThrows(cached)
       THEN \* JSON.parse throws; the catch block returns []
            [cache |-> c1,
             call |-> Call("listFiles", directoryPath, <<>>, useCache, o,
                           FALSE, JsonStringify(<<>>), <<>>, TRUE)]
     ELSE IF Truthy(cached)
       THEN [cache |-> c1,
             call |-> Call("listFiles", directoryPath, <<>>, useCache, o,
                           TRUE, JsonStringify(JsonParse(cached)), <<>>, FALSE)]
     ELSE [cache |-> CacheSet(c1, normalizedPath, JsonStringify(files), t),
           call |-> Call("listFiles", directoryPath, <<>>, useCache, o,
                         TRUE, JsonStringify(files), <<"list">>, FALSE)]

listFiles(directoryPath, useCache, o) ==
  LET r == ListFilesRun(store, cache, now, directoryPath, useCache, o)
  IN /\ last = Idle
     /\ cache' = r.cache
     /\ last' = r.call
     /\ UNCHANGED <<store, now, paths, recon>>

\* a placeholder path built without stripping the trailing separator
PlaceholderPath_keepsSeparator(directoryPath) ==
  directoryPath \o <<"/">> \o DotPlaceholder

\* directoryPath.replace(/\/$/, "") + "/.placeholder"
PlaceholderPath(directoryPath) ==
  (IF EndsWith(directoryPath, <<"/">>)
     THEN SubSeq(directoryPath, 1, Len(directoryPath) - 1)
     ELSE directoryPath)
  \o <<"/", ".", "p", "l", "a", "c", "e", "h", "o", "l", "d", "e", "r">>

\* the cache after the placeholder has been created: the parent pattern of
\* directoryPath invalidated
CacheAfterCreateDirectory(c, directoryPath) ==
  LET parentPath == getParentPath(directoryPath)
  IN IF parentPath # NoParent THEN CacheInvalidate(c, parentPath) ELSE c

createDirectory(directoryPath, o) ==
  /\ last = Idle
  /\ \E r \in {CreateFileRun(store, cache, now, PlaceholderPath(directoryPath), <<>>, o)} :
       /\ store' = r.store
       /\ cache' = IF r.call.ok THEN CacheAfterCreateDirectory(r.cache, directoryPath)
                   ELSE r.cache
       /\ last' = Call("createDirectory", directoryPath, <<>>, FALSE, o, r.call.ok,
                       NullV, r.call.calls, FALSE)
       /\ UNCHANGED <<now, paths, recon>>

\* the copy once the source has been read (r is the run of that readFile):
\* false without a write when the read gave null, otherwise createFile of
\* the destination with the content read. In the runs of SpecOps no file
\* path is the key of a listing, so the read yields text.
CopyAfterRead(s, r, t, sourcePath, destinationPath, o1, o2) ==
  IF r.call.value = NullV
    THEN [store |-> s, cache |-> r.cache,
          call |-> [Call("copyFile", sourcePath, <<>>, TRUE, o1, FALSE, NullV,
                         r.call.calls, FALSE)
                      EXCEPT !.dest = destinationPath]]
  ELSE CHOOSE res \in
         {[store |-> w.store, cache |-> w.cache,
           call |-> [Call("copyFile", sourcePath, r.call.value.text, TRUE, o1,
                          w.call.ok, NullV, r.call.calls \o w.call.calls, FALSE)
                       EXCEPT !.dest = destinationPath,
                              !.steps = r.call.steps \o w.call.steps]] :
            w \in {CreateFileRun(s, r.cache, t, destinationPath,
                                 r.call.value.text, o2)}} : TRUE

\* a copy that reads the source from the store, past the cache
CopyFileRun_uncachedRead(s, c, t, sourcePath, destinationPath, o1, o2) ==
  CHOOSE res \in
    {CopyAfterRead(s, r, t, sourcePath, destinationPath, o1, o2) :
       r \in {ReadFileRun(s, c, t, sourcePath, FALSE, o1)}} : TRUE

\* copyFile run on store s and cache c at time t, with the outcome o1 of the
\* store get and o2 of the store put (when they are issued)
CopyFileRun(s, c, t, sourcePath, destinationPath, o1, o2) ==
  CHOOSE res \in
    {CopyAfterRead(s, r, t, sourcePath, destinationPath, o1, o2) :
       r \in {ReadFileRun(s, c, t, sourcePath, TRUE, o1)}} : TRUE

copyFile(sourcePath, destinationPath, o1, o2) ==
  /\ last = Idle
  /\ \E r \in {CopyFileRun(store, cache, now, sourcePath, destinationPath, o1, o2)} :
       /\ store' = r.store
       /\ cache' = r.cache
       /\ last' = r.call
       /\ UNCHANGED <<now, paths, recon>>

\* a move that deletes the source whatever the copy returned
moveFile_deletesAlways(sourcePath, destinationPath, o1, o2, o3) ==
  /\ last = Idle
  /\ \E r \in {CopyFileRun(store, cache, now, sourcePath, destinationPath, o1, o2)} :
       \E d \in {DeleteFileRun(r.store, r.cache, sourcePath, o3)} :
         /\ store' = d.store
         /\ cache' = d.cache
         /\ last' = [r.call EXCEPT
                       !.op = "moveFile",
                       !.calls = r.call.calls \o d.call.calls,
                       !.steps = r.call.steps \o d.call.steps]
         /\ UNCHANGED <<now, paths, recon>>

\* moveFile: copyFile, then deleteFile(sourcePath) when the copy succeeded;
\* the result of the delete is not looked at
moveFile(sourcePath, destinationPath, o1, o2, o3) ==
  /\ last = Idle
  /\ \E r \in {CopyFileRun(store, cache, now, sourcePath, destinationPath, o1, o2)} :
       \E d \in {DeleteFileRun(r.store, r.cache, sourcePath, o3)} :
         /\ store' = IF r.call.ok THEN d.store ELSE r.store
         /\ cache' = IF r.call.ok THEN d.cache ELSE r.cache
         /\ last' = [r.call EXCEPT
                       !.op = "moveFile",
                       !.calls = IF r.call.ok THEN r.call.calls \o d.call.calls
                                 ELSE r.call.calls,
                       !.steps = IF r.call.ok THEN r.call.steps \o d.call.steps
                                 ELSE r.call.steps]
         /\ UNCHANGED <<now, paths, recon>>

\* fileExists: a cache-enabled readFile that is not null
fileExists(filePath, o) ==
  /\ last = Idle
  /\ \E r \in {ReadFileRun(store, cache, now, filePath, TRUE, o)} :
       /\ cache' = r.cache
       /\ last' = [r.call EXCEPT !.op = "fileExists", !.ok = (r.call.value # NullV),
                                !.value = NullV]
       /\ UNCHANGED <<store, now, paths, recon>>

\* the caller takes the result; the next call can start
Return ==
  /\ last # Idle
  /\ last' = Idle
  /\ UNCHANGED <<store, cache, now, paths, recon>>

\* time passes between two calls
Tick ==
  /\ last = Idle
  /\ now < MaxTicks * TickMs
  /\ now' = now + TickMs
  /\ UNCHANGED <<store, cache, last, paths, recon>>

CreateFile ==
  \E a \in WriteArgs, o \in WriteOutcomes : a[1] \in paths /\ createFile(a[1], a[2], o)
ReadFile ==
  \E p \in paths, u \in BOOLEAN, o \in ReadOutcomes : readFile(p, u, o)
UpdateFile ==
  \E a \in WriteArgs, o \in WriteOutcomes : a[1] \in paths /\ updateFile(a[1], a[2], o)
DeleteFile ==
  \E p \in paths, o \in WriteOutcomes : deleteFile(p, o)
ListFiles ==
  \E d \in DirPaths, u \in BOOLEAN, o \in ReadOutcomes : listFiles(d, u, o)

EmptyMap == [k \in {} |-> NullV]

ReconIdle == [dir |-> <<>>, urls |-> <<>>, files |-> <<>>, done |-> FALSE]

Init ==
  /\ store = EmptyMap
  /\ cache = EmptyMap
  /\ now = 0
  /\ last = Idle
  /\ paths \in Worlds
  /\ recon = ReconIdle

Next ==
  CreateFile \/ ReadFile \/ UpdateFile \/ DeleteFile \/ ListFiles \/ Return \/ Tick

Spec == Init /\ [][Next]_vars

\* ------------------------------------------------------------------------
\* The facade with its composite operations: directories, copies and moves
\* over file paths none of which is the key of a listing
\* ------------------------------------------------------------------------

OpsPaths == {KeyAX, KeyB}

OpsContents == {<<>>, <<120>>}

\* the directory a under the root, named with and without the separator
OpsDirArgs == {KeyA, KeyADir}

OpsDirPaths == {Root, KeyA}

CreateDirectory ==
  \E d \in OpsDirArgs, o \in WriteOutcomes : createDirectory(d, o)
CopyFile ==
  \E p \in paths, q \in paths, o1 \in ReadOutcomes, o2 \in WriteOutcomes :
    copyFile(p, q, o1, o2)
MoveFile ==
  \E p \in paths, q \in paths, o1 \in ReadOutcomes,
     o2 \in WriteOutcomes, o3 \in WriteOutcomes :
    moveFile(p, q, o1, o2, o3)
FileExists ==
  \E p \in paths, o \in ReadOutcomes : fileExists(p, o)
OpsCreateFile ==
  \E p \in paths, c \in OpsContents, o \in WriteOutcomes : createFile(p, c, o)
OpsUpdateFile ==
  \E p \in paths, c \in OpsContents, o \in WriteOutcomes : updateFile(p, c, o)
OpsListFiles ==
  \E d \in OpsDirPaths, u \in BOOLEAN, o \in ReadOutcomes : listFiles(d, u, o)

InitOps ==
  /\ store = EmptyMap
  /\ cache = EmptyMap
  /\ now = 0
  /\ last = Idle
  /\ paths = OpsPaths
  /\ recon = ReconIdle

NextOps ==
  \/ CreateDirectory \/ CopyFile \/ MoveFile \/ FileExists
  \/ OpsCreateFile \/ OpsUpdateFile \/ DeleteFile \/ ReadFile \/ OpsListFiles
  \/ Return

SpecOps == InitOps /\ [][NextOps]_vars

\* ------------------------------------------------------------------------
\* The cache on its own: set, get and invalidate at chosen times
\* ------------------------------------------------------------------------

ListAX == <<"l","i","s","t",":","a","/","x">>   \* list:a/x
ListAY == <<"l","i","s","t",":","a","/","y">>   \* list:a/y
FileAX == <<"f","i","l","e",":","a","/","x">>   \* file:a/x

CacheKeys == {ListAX, ListAY, FileAX}

\* list:a* , list:a/x , list:a
Patterns ==
  {<<"l","i","s","t",":","a","*">>, ListAX, <<"l","i","s","t",":","a">>}

\* the lifetimes a caller asks for: none at all, one millisecond, the default
TtlArgs == {0, 1, TTL_MS}

\* the instants at which the cache is called
CacheTimes == {0, 1, TTL_MS, TTL_MS + 1}

\* CacheManager.set(path, data): the signature has no lifetime, a lifetime
\* the caller passes is dropped and the entry gets TTL_MS
CacheManagerSet(c, path, data, ttl, t) == CacheSet(c, path, data, t)

\* the record of one cache call: for set the data, the lifetime asked for
\* and the time; for get the value returned and, when no other call came
\* between the set of the key and this get (tracked), that set and the age
\* of its entry; for invalidate the pattern and the cache before the call
CacheCall(op, path, data, ttl, at, age, result, tracked, before) ==
  [op |-> op, path |-> path, data |-> data, ttl |-> ttl, at |-> at,
   age |-> age, result |-> result, tracked |-> tracked, before |-> before]

CacheIdle == CacheCall("none", <<>>, NullV, 0, 0, 0, NullV, FALSE, EmptyMap)

CacheSetCall ==
  \E k \in CacheKeys, ttl \in TtlArgs :
    /\ cache' = CacheManagerSet(cache, k, Text(<<120>>), ttl, now)
    /\ last' = CacheCall("set", k, Text(<<120>>), ttl, now, 0, NullV, TRUE, EmptyMap)
    /\ UNCHANGED <<store, now, paths, recon>>

CacheGetCall ==
  \E k \in CacheKeys :
    LET follows == last.tracked /\ last.path = k
    IN /\ cache' = CacheGetCache(cache, k, now)
       /\ last' = CacheCall("get", k,
                            IF follows THEN last.data ELSE NullV,
                            IF follows THEN last.ttl ELSE 0,
                            IF follows THEN last.at ELSE 0,
                            IF follows THEN now - last.at ELSE 0,
                            CacheGetValue(cache, k, now), follows, EmptyMap)
       /\ UNCHANGED <<store, now, paths, recon>>

CacheInvalidateCall ==
  \E pattern \in Patterns :
    /\ cache' = CacheInvalidate(cache, pattern)
    /\ last' = CacheCall("invalidate", pattern, NullV, 0, now, 0, NullV, FALSE, cache)
    /\ UNCHANGED <<store, now, paths, recon>>

CacheTick ==
  /\ \E t \in CacheTimes : t > now /\ now' = t
  /\ UNCHANGED <<store, cache, last, paths, recon>>

InitCache ==
  /\ store = EmptyMap
  /\ cache = EmptyMap
  /\ now = 0
  /\ last = CacheIdle
  /\ paths = {}
  /\ recon = ReconIdle

NextCache == CacheSetCall \/ CacheGetCall \/ CacheInvalidateCall \/ CacheTick

SpecCache == InitCache /\ [][NextCache]_vars

\* ------------------------------------------------------------------------
\* Capability check: hasWriteAccess on its own
\* ------------------------------------------------------------------------

\* String.prototype.split(sep) with a one-character separator
RECURSIVE SplitOn(_, _)
SplitOn(s, sep) ==
  LET i == IndexOf(s, <<sep>>)
  IN IF i = 0 THEN <<s>>
     ELSE <<SubSeq(s, 1, i - 1)>> \o SplitOn(SubSeq(s, i + 1, Len(s)), sep)

\* String.prototype.replace(pattern, by) with a string pattern: replaces the
\* first occurrence
ReplaceFirst(s, pat, by) ==
  LET i == IndexOf(s, pat)
  IN IF i = 0 THEN s
     ELSE SubSeq(s, 1, i - 1) \o by \o SubSeq(s, i + Len(pat), Len(s))

PubkyScheme == <<"p","u","b","k","y",":","/","/">>
PubSegment == <<"/","p","u","b","/">>

\* a check that looks for /pub/ anywhere in the key, whoever owns it
hasWriteAccess_anyOwner(userPublicKey, capabilities, filePath) ==
  IF Includes(filePath, PubSegment)
    THEN LET pathAfterPub ==
               SubSeq(filePath, IndexOf(filePath, PubSegment), Len(filePath))
         IN \E n \in 1..Len(capabilities) :
              LET parts == SplitOn(capabilities[n], ":")
                  path == parts[1]
              IN /\ Len(parts) >= 2
                 /\ Len(parts[2]) > 0
                 /\ Includes(parts[2], <<"w">>)
                 /\ (StartsWith(pathAfterPub, path) \/ StartsWith(path, pathAfterPub))
  ELSE FALSE

\* a check that accepts only a grant whose path is a prefix of the target
hasWriteAccess_parentOnly(userPublicKey, capabilities, filePath) ==
  LET ownPub == PubkyScheme \o userPublicKey \o PubSegment
  IN IF StartsWith(filePath, ownPub)
       THEN LET pathAfterPub == ReplaceFirst(filePath, ownPub, PubSegment)
            IN \E n \in 1..Len(capabilities) :
                 LET parts == SplitOn(capabilities[n], ":")
                     path == parts[1]
                 IN /\ Len(parts) >= 2
                    /\ Len(parts[2]) > 0
                    /\ Includes(parts[2], <<"w">>)
                    /\ StartsWith(pathAfterPub, path)
     ELSE FALSE

\* hasWriteAccess(userPublicKey, capabilities, filePath)
hasWriteAccess(userPublicKey, capabilities, filePath) ==
  LET ownPub == PubkyScheme \o userPublicKey \o PubSegment
  IN IF StartsWith(filePath, ownPub)
       THEN LET pathAfterPub == ReplaceFirst(filePath, ownPub, PubSegment)
            IN \E n \in 1..Len(capabilities) :
                 LET parts == SplitOn(capabilities[n], ":")
                     path == parts[1]
                 IN /\ Len(parts) >= 2
                    /\ Len(parts[2]) > 0
                    /\ Includes(parts[2], <<"w">>)
                    /\ (StartsWith(pathAfterPub, path) \/ StartsWith(path, pathAfterPub))
     ELSE FALSE

AuthOwners == {<<"o","w","n","e","r">>, <<"o","t","h","e","r">>}

KeyAppFile == <<"p","u","b","k","y",":","/","/","o","w","n","e","r","/","p","u","b","/","a","p","p","/","s","u","b","/","f","i","l","e",".","t","x","t">>   \* pubky://owner/pub/app/sub/file.txt
AuthKeys ==
  {KeyAppFile,
   <<"p","u","b","k","y",":","/","/","o","w","n","e","r","/","p","u","b","/","a","p","p","/">>,   \* pubky://owner/pub/app/
   <<"p","u","b","k","y",":","/","/","o","w","n","e","r","/","p","u","b","/">>,   \* pubky://owner/pub/
   <<"p","u","b","k","y",":","/","/","o","w","n","e","r","/","p","u","b","/","o","t","h","e","r","/","x">>,   \* pubky://owner/pub/other/x
   <<"p","u","b","k","y",":","/","/","o","w","n","e","r","/","p","u","b">>,   \* pubky://owner/pub
   <<"p","u","b","k","y",":","/","/","o","w","n","e","r","/","p","r","i","v","a","t","e","/","x">>,   \* pubky://owner/private/x
   <<"p","u","b","k","y",":","/","/","o","t","h","e","r","/","p","u","b","/","a","p","p","/","s","u","b","/","f","i","l","e",".","t","x","t">>,   \* pubky://other/pub/app/sub/file.txt
   <<"p","u","b","k","y",":","/","/","o","w","n","e","r","2","/","p","u","b","/","a","p","p","/","x">>,   \* pubky://owner2/pub/app/x
   <<"h","t","t","p","s",":","/","/","o","w","n","e","r","/","p","u","b","/","a","p","p","/","x">>}   \* https://owner/pub/app/x

\* the grants a capability list is made of: path and permission
GrantApp == [path |-> <<"/","p","u","b","/","a","p","p","/">>, permission |-> <<"r","w">>]
Grants ==
  {GrantApp,
   [path |-> <<"/","p","u","b","/","a","p","p","/">>, permission |-> <<"r">>],
   [path |-> <<"/","p","u","b","/">>, permission |-> <<"w">>],
   [path |-> <<"/","p","u","b","/","a","p","p","/","s","u","b","/","f","i","l","e",".","t","x","t","/","m","o","r","e">>, permission |-> <<"r","w">>],
   [path |-> <<"/","p","u","b","/","o","t","h","e","r","/">>, permission |-> <<"r","w">>],
   [path |-> <<"/","p","u","b","/","a","p","p","/">>, permission |-> <<>>]}

\* the "path:perm" string of a grant
CapabilityString(g) == g.path \o <<":">> \o g.permission

\* the capability list of a set of grants, as the session holds it
RECURSIVE CapabilityList(_)
CapabilityList(gs) ==
  IF gs = {} THEN <<>>
  ELSE LET g == CHOOSE x \in gs : TRUE
       IN <<CapabilityString(g)>> \o CapabilityList(gs \ {g})

AuthCall(userPublicKey, grants, filePath, result) ==
  [op |-> "hasWriteAccess", owner |-> userPublicKey, grants |-> grants,
   path |-> filePath, result |-> result]

AuthIdle == [op |-> "none", owner |-> <<>>, grants |-> {}, path |-> <<>>,
             result |-> FALSE]

HasWriteAccess ==
  \E o \in AuthOwners, gs \in SUBSET Grants, k \in AuthKeys :
    /\ last.op = "none"
    /\ last' = AuthCall(o, gs, k, hasWriteAccess(o, CapabilityList(gs), k))
    /\ UNCHANGED <<store, cache, now, paths, recon>>

InitAuth ==
  /\ store = EmptyMap
  /\ cache = EmptyMap
  /\ now = 0
  /\ last = AuthIdle
  /\ paths = {}
  /\ recon = ReconIdle

NextAuth == HasWriteAccess

SpecAuth == InitAuth /\ [][NextAuth]_vars

\* ------------------------------------------------------------------------
\* Blob metadata: parseBlobMetadata and isBlobMetadata on their own
\* ------------------------------------------------------------------------

\* JSON values by their typeof: a property that is missing is undefined
Undefined == [type |-> "undefined", str |-> <<>>]
JsonNull == [type |-> "object", str |-> <<>>]
JsonNumber == [type |-> "number", str |-> <<>>]
JsonTrue == [type |-> "boolean", str |-> <<>>]
JsonString(chars) == [type |-> "string", str |-> chars]

BlobSrc == <<"p","u","b","k","y",":","/","/","u","/","p","u","b","/","b","l","o","b","s","/","B">>   \* pubky://u/pub/blobs/B
OtherSrc == <<"h","t","t","p","s",":","/","/","x","/","B">>   \* https://x/B

MetaFields == {"name", "created_at", "src", "content_type", "size"}

\* the values a property of the parsed object can have
FieldValues ==
  {Undefined, JsonNull, JsonNumber, JsonTrue, JsonString(<<"a">>),
   JsonString(BlobSrc), JsonString(OtherSrc)}

\* what JSON.parse makes of the content: it throws ("malformed"), or yields
\* null, a number, a string, an array or an object with its properties
JsonDocuments ==
  {[kind |-> k, fields |-> [f \in MetaFields |-> Undefined]] :
     k \in {"malformed", "null", "number", "string", "array"}}
  \cup
  {[kind |-> "object", fields |-> fs] :
     fs \in {g \in [MetaFields -> FieldValues] :
               /\ g["name"] \in {Undefined, JsonNumber, JsonString(<<"a">>)}
               /\ g["created_at"] \in {Undefined, JsonNumber, JsonString(<<"a">>)}
               /\ g["content_type"] \in {JsonNull, JsonString(<<"a">>)}
               /\ g["src"] # JsonTrue
               /\ g["size"] \in {Undefined, JsonNumber, JsonTrue, JsonString(<<"a">>)}}}

\* reading property f of the parsed value: a property of null throws, which
\* Throws tells; a number, a string or an array has none of the properties
Throws(doc) == doc.kind \in {"malformed", "null"}

Property(doc, f) == IF doc.kind = "object" THEN doc.fields[f] ELSE Undefined

NoMetadata == [kind |-> "none", fields |-> [f \in MetaFields |-> Undefined]]

\* a parse that does not look at the scheme of src
parseBlobMetadata_anySrc(doc) ==
  IF Throws(doc) THEN NoMetadata
  ELSE IF /\ Property(doc, "name").type = "string"
          /\ Property(doc, "created_at").type = "number"
          /\ Property(doc, "src").type = "string"
          /\ Property(doc, "content_type").type = "string"
          /\ Property(doc, "size").type = "number"
    THEN doc
  ELSE NoMetadata

\* parseBlobMetadata: the parsed value, or NoMetadata for null
parseBlobMetadata(doc) ==
  IF Throws(doc) THEN NoMetadata
  ELSE IF /\ Property(doc, "name").type = "string"
          /\ Property(doc, "created_at").type = "number"
          /\ Property(doc, "src").type = "string"
          /\ Property(doc, "content_type").type = "string"
          /\ Property(doc, "size").type = "number"
          /\ StartsWith(Property(doc, "src").str, PubkyScheme)
    THEN doc
  ELSE NoMetadata

isBlobMetadata(doc) == parseBlobMetadata(doc) # NoMetadata

MetaIdle == [op |-> "none", input |-> NoMetadata, result |-> NoMetadata,
             isMetadata |-> FALSE]

ParseBlobMetadata ==
  \E doc \in JsonDocuments :
    /\ last.op = "none"
    /\ last' = [op |-> "parseBlobMetadata", input |-> doc,
                result |-> parseBlobMetadata(doc),
                isMetadata |-> isBlobMetadata(doc)]
    /\ UNCHANGED <<store, cache, now, paths, recon>>

InitMeta ==
  /\ store = EmptyMap
  /\ cache = EmptyMap
  /\ now = 0
  /\ last = MetaIdle
  /\ paths = {}
  /\ recon = ReconIdle

NextMeta == ParseBlobMetadata

SpecMeta == InitMeta /\ [][NextMeta]_vars

\* ------------------------------------------------------------------------
\* BlobManager: JSON text of a metadata record, uploadImage and replaceBlob
\* ------------------------------------------------------------------------

\* the printable ASCII characters, from code 32 to code 126 (the grave
\* accent, code 96, is spelled out)
AsciiTable ==
  <<" ","!","\"","#","$","%","&","'","(",")","*","+",",","-",".","/",
    "0","1","2","3","4","5","6","7","8","9",":",";","<","=",">","?",
    "@","A","B","C","D","E","F","G","H","I","J","K","L","M","N","O",
    "P","Q","R","S","T","U","V","W","X","Y","Z","[","\\","]","^","_",
    "grave","a","b","c","d","e","f","g","h","i","j","k","l","m","n","o",
    "p","q","r","s","t","u","v","w","x","y","z","{","|","}","~">>

\* the code unit of a character and the character of a code unit; the texts
\* of a metadata record in this model are ASCII with line feeds
CodeUnit(ch) ==
  IF ch = "\n" THEN 10 ELSE 31 + (CHOOSE i \in 1..Len(AsciiTable) : AsciiTable[i] = ch)

CharOf(u) == IF u = 10 THEN "\n" ELSE AsciiTable[u - 31]

Units(chars) == [i \in 1..Len(chars) |-> CodeUnit(chars[i])]

Chars(units) == [i \in 1..Len(units) |-> CharOf(units[i])]

\* the decimal digits of a natural number
RECURSIVE Digits(_)
Digits(n) ==
  IF n < 10 THEN <<AsciiTable[17 + n]>>
  ELSE Append(Digits(n \div 10), AsciiTable[17 + (n % 10)])

JsonNumberOf(n) == [type |-> "number", str |-> Digits(n)]

\* JSON.stringify of a string: quotes around it, a backslash before each
\* quote and each backslash
RECURSIVE Escape(_)
Escape(chars) ==
  IF Len(chars) = 0 THEN <<>>
  ELSE (IF Head(chars) \in {"\"", "\\"} THEN <<"\\", Head(chars)>>
        ELSE <<Head(chars)>>) \o Escape(Tail(chars))

Quote(chars) == <<"\"">> \o Escape(chars) \o <<"\"">>

\* the key order of a BlobMetadata object
MetaOrder ==
  << <<"n","a","m","e">>, <<"c","r","e","a","t","e","d","_","a","t">>,
     <<"s","r","c">>,
     <<"c","o","n","t","e","n","t","_","t","y","p","e">>,
     <<"s","i","z","e">> >>

FieldName(key) ==
  CHOOSE f \in MetaFields \cup {"other"} :
    \/ f = "name" /\ key = MetaOrder[1]
    \/ f = "created_at" /\ key = MetaOrder[2]
    \/ f = "src" /\ key = MetaOrder[3]
    \/ f = "content_type" /\ key = MetaOrder[4]
    \/ f = "size" /\ key = MetaOrder[5]
    \/ f = "other" /\ \A i \in 1..5 : key # MetaOrder[i]

\* one member of the object on its own line, indented by two spaces
Member(key, v) ==
  <<" ", " ">> \o Quote(key) \o <<":", " ">>
  \o (IF v.type = "string" THEN Quote(v.str) ELSE v.str)

\* JSON.stringify(metadata, null, 2) of a record with its five properties
StringifyMetadata(metadata) ==
  <<"{", "\n">>
  \o Member(MetaOrder[1], metadata.fields["name"]) \o <<",", "\n">>
  \o Member(MetaOrder[2], metadata.fields["created_at"]) \o <<",", "\n">>
  \o Member(MetaOrder[3], metadata.fields["src"]) \o <<",", "\n">>
  \o Member(MetaOrder[4], metadata.fields["content_type"]) \o <<",", "\n">>
  \o Member(MetaOrder[5], metadata.fields["size"]) \o <<"\n", "}">>

IsDigit(ch) == ch \in {"0","1","2","3","4","5","6","7","8","9"}

Token(t, str) == [t |-> t, str |-> str]

\* The scan of a JSON text into tokens: punctuation, strings with their
\* escapes undone, numbers as their digits; a character that fits none of
\* them gives the token "bad" and ends the scan.  The state between two
\* characters: the tokens so far, the mode (between tokens, inside a
\* string, after a backslash in a string, inside a number, or stopped) and
\* the token being read.
ScanState(acc, mode, cur) == [acc |-> acc, mode |-> mode, cur |-> cur]

ScanBad(acc) == ScanState(Append(acc, Token("bad", <<>>)), "bad", <<>>)

\* one character read between tokens
ScanOut(ch, acc) ==
  IF ch \in {" ", "\n"} THEN ScanState(acc, "out", <<>>)
  ELSE IF ch \in {"{", "}", ":", ","}
    THEN ScanState(Append(acc, Token(ch, <<>>)), "out", <<>>)
  ELSE IF ch = "\"" THEN ScanState(acc, "string", <<>>)
  ELSE IF IsDigit(ch) THEN ScanState(acc, "number", <<ch>>)
  ELSE ScanBad(acc)

\* one character read in state st
ScanStep(ch, st) ==
  IF st.mode = "bad" THEN st
  ELSE IF st.mode = "string"
    THEN (IF ch = "\"" THEN ScanState(Append(st.acc, Token("string", st.cur)), "out", <<>>)
          ELSE IF ch = "\\" THEN ScanState(st.acc, "escape", st.cur)
          ELSE IF ch = "\n" THEN ScanBad(st.acc)
          ELSE ScanState(st.acc, "string", Append(st.cur, ch)))
  ELSE IF st.mode = "escape"
    THEN (IF ch \in {"\"", "\\"} THEN ScanState(st.acc, "string", Append(st.cur, ch))
          ELSE ScanBad(st.acc))
  ELSE IF st.mode = "number"
    THEN (IF IsDigit(ch) THEN ScanState(st.acc, "number", Append(st.cur, ch))
          ELSE ScanOut(ch, Append(st.acc, Token("number", st.cur))))
  ELSE ScanOut(ch, st.acc)

\* the characters at lo..hi read from state st, the range taken in two halves
RECURSIVE ScanRange(_, _, _, _)
ScanRange(s, lo, hi, st) ==
  IF lo > hi THEN st
  ELSE IF lo = hi THEN ScanStep(s[lo], st)
  ELSE CHOOSE res \in
         {ScanRange(s, (lo + hi) \div 2 + 1, hi, l) :
            l \in {ScanRange(s, lo, (lo + hi) \div 2, st)}} : TRUE

\* the tokens of a text: a string left open at the end is bad, a number
\* ends with the text
Tokenize(s) ==
  CHOOSE toks \in
    {IF st.mode \in {"string", "escape"} THEN ScanBad(st.acc).acc
     ELSE IF st.mode = "number" THEN Append(st.acc, Token("number", st.cur))
     ELSE st.acc :
       st \in {ScanRange(s, 1, Len(s), ScanState(<<>>, "out", <<>>))}} : TRUE

\* a number token is a JSON number when it has no leading zero
IsValue(tok) ==
  \/ tok.t = "string"
  \/ tok.t = "number" /\ (Len(tok.str) = 1 \/ tok.str[1] # "0")

ValueOf(tok) == [type |-> tok.t, str |-> tok.str]

\* the tokens are those of an object: { key : value , ... }
IsObject(toks) ==
  LET n == Len(toks)
  IN /\ n >= 2
     /\ toks[1].t = "{"
     /\ toks[n].t = "}"
     /\ \/ n = 2
        \/ /\ (n - 1) % 4 = 0
           /\ \A j \in 1..((n - 1) \div 4) :
                /\ toks[4 * j - 2].t = "string"
                /\ toks[4 * j - 1].t = ":"
                /\ IsValue(toks[4 * j])
                /\ j < (n - 1) \div 4 => toks[4 * j + 1].t = ","

\* the value of property f: that of the last member with the key
MemberValue(toks, f) ==
  LET js == {j \in 1..((Len(toks) - 1) \div 4) : FieldName(toks[4 * j - 2].str) = f}
  IN IF js = {} THEN Undefined
     ELSE ValueOf(toks[4 * (CHOOSE j \in js : \A k \in js : k <= j)])

Malformed == [kind |-> "malformed", fields |-> [f \in MetaFields |-> Undefined]]

\* JSON.parse of the tokens of a text
ParseTokens(toks) ==
  IF Len(toks) = 1 /\ IsValue(toks[1])
    THEN [kind |-> toks[1].t, fields |-> [f \in MetaFields |-> Undefined]]
  ELSE IF IsObject(toks)
    THEN [kind |-> "object", fields |-> [f \in MetaFields |-> MemberValue(toks, f)]]
  ELSE Malformed

\* JSON.parse(text) for the texts the store of this model can hold: an
\* object of strings and numbers, a string, a number, or no JSON at all
\* (kind "malformed": JSON.parse throws)
ParseJson(chars) ==
  CHOOSE doc \in {ParseTokens(toks) : toks \in {Tokenize(chars)}} : TRUE

\* createBinaryFile run on store s and cache c: the bytes are put as they
\* are, a success invalidates the parent pattern and caches nothing
CreateBinaryFileRun(s, c, filePath, data, o) ==
  [store |-> PutStore(s, filePath, data, o),
   cache |-> IF PutResult(o) /\ getParentPath(filePath) # NoParent
               THEN CacheInvalidate(c, getParentPath(filePath)) ELSE c,
   call |-> Call("createBinaryFile", filePath, <<>>, FALSE, o, PutResult(o),
                 NullV, <<"put">>, FALSE)]

\* a File: its name, its type and its bytes (size is their number)
BlobFiles ==
  {[name |-> <<"a">>, type |-> <<"t">>, bytes |-> <<7>>],
   [name |-> <<"\"">>, type |-> <<"p">>, bytes |-> <<7, 8>>]}

\* generateBlobId draws 26 characters at random from a 32-character
\* alphabet; here the identifier of a blob is one of two characters of that
\* alphabet and the identifier of a metadata file is a third
BlobIds == {<<"B">>, <<"C">>}

MetadataIds == {<<"M">>}

UserPublicKey == <<"u">>

BasePath == <<"/","p","u","b">>

BlobsSegment == <<"/","b","l","o","b","s","/">>
FilesSegment == <<"/","f","i","l","e","s","/">>

BlobPathOf(userPublicKey, basePath, blobId) ==
  PubkyScheme \o userPublicKey \o basePath \o BlobsSegment \o blobId

MetadataPathOf(userPublicKey, basePath, metadataId) ==
  PubkyScheme \o userPublicKey \o basePath \o FilesSegment \o metadataId

\* the BlobMetadata object built for a file: created_at is Date.now() in
\* microseconds
MetadataOf(file, src, t) ==
  [kind |-> "object",
   fields |-> [f \in MetaFields |->
                 CASE f = "name" -> JsonString(file.name)
                   [] f = "created_at" -> JsonNumberOf(t * 1000)
                   [] f = "src" -> JsonString(src)
                   [] f = "content_type" -> JsonString(file.type)
                   [] f = "size" -> JsonNumberOf(Len(file.bytes))]]

\* the record of one BlobManager call: the file, the metadata path, the
\* blob path and the metadata object it returns (or would have returned),
\* the src of the metadata it read, the store calls it issued with their
\* urls and outcomes, the store at the moment the metadata put was issued,
\* and whether it threw
BlobCall(op, file, path, blobPath, oldSrc, metadata, calls, urls, steps, mid, threw) ==
  [op |-> op, file |-> file, path |-> path, blobPath |-> blobPath,
   oldSrc |-> oldSrc, metadata |-> metadata, calls |-> calls, urls |-> urls,
   steps |-> steps, mid |-> mid, threw |-> threw]

\* uploadImage: put the blob, then createFile the metadata; neither result
\* is looked at and the paths are returned
uploadImage(file, basePath, userPublicKey, blobId, metadataId, o1, o2) ==
  /\ last = Idle
  /\ \E blobPath \in {BlobPathOf(userPublicKey, basePath, blobId)},
        metadataPath \in {MetadataPathOf(userPublicKey, basePath, metadataId)} :
       \E metadata \in {MetadataOf(file, blobPath, now)} :
         \E b \in {CreateBinaryFileRun(store, cache, blobPath, file.bytes, o1)} :
           \E m \in {CreateFileRun(b.store, b.cache, now, metadataPath,
                                   Units(StringifyMetadata(metadata)), o2)} :
             /\ store' = m.store
             /\ cache' = m.cache
             /\ last' = BlobCall("uploadImage", file, metadataPath, blobPath,
                                 Undefined, metadata, <<"put", "put">>,
                                 <<blobPath, metadataPath>>, <<o1, o2>>,
                                 b.store, FALSE)
             /\ UNCHANGED <<now, paths, recon>>

\* String.prototype.replace(/\/files\/[^/]+$/, ""): a last segment that
\* follows /files/ is cut off together with /files/
StripFilesSegment(s) ==
  LET slashes == {i \in 1..Len(s) : s[i] = "/"}
      k == CHOOSE i \in slashes : \A j \in slashes : j <= i
  IN IF slashes # {} /\ k < Len(s) /\ k >= Len(FilesSegment)
        /\ SubSeq(s, k - Len(FilesSegment) + 1, k) = FilesSegment
       THEN SubSeq(s, 1, k - Len(FilesSegment))
     ELSE s

\* replaceBlob that ends in its catch block: it rethrows
ReplaceBlobThrew(file, existingMetadataPath, c, readCalls, o1) ==
  /\ store' = store
  /\ cache' = c
  /\ last' = BlobCall("replaceBlob", file, existingMetadataPath, <<>>, Undefined,
                      NoMetadata, readCalls,
                      [i \in 1..Len(readCalls) |-> existingMetadataPath],
                      [i \in 1..Len(readCalls) |-> o1], store, TRUE)
  /\ UNCHANGED <<now, paths, recon>>

\* writes that delete the old blob before the metadata is updated
ReplaceBlobWrites_deletesFirst(file, existingMetadataPath, newBlobPath, r, oldSrc, o1, o2, o3, o4) ==
  \E metadata \in {MetadataOf(file, newBlobPath, now)} :
    \E b \in {CreateBinaryFileRun(store, r.cache, newBlobPath, file.bytes, o2)} :
      \E deletes \in {oldSrc # JsonString(newBlobPath)} :
        \E d \in {DeleteFileRun(b.store, b.cache, oldSrc.str,
                                IF oldSrc.type = "string" THEN o4 ELSE "fail")} :
          \E u \in {UpdateFileRun(IF deletes THEN d.store ELSE b.store,
                                  IF deletes THEN d.cache ELSE b.cache,
                                  now, existingMetadataPath,
                                  Units(StringifyMetadata(metadata)), o3)} :
            /\ store' = u.store
            /\ cache' = u.cache
            /\ last' = BlobCall("replaceBlob", file, existingMetadataPath,
                                newBlobPath, oldSrc, metadata,
                                r.call.calls \o <<"put">>
                                  \o (IF deletes THEN <<"delete">> ELSE <<>>)
                                  \o <<"put">>,
                                [i \in 1..Len(r.call.calls) |-> existingMetadataPath]
                                  \o <<newBlobPath>>
                                  \o (IF deletes THEN <<oldSrc.str>> ELSE <<>>)
                                  \o <<existingMetadataPath>>,
                                [i \in 1..Len(r.call.calls) |-> o1]
                                  \o <<o2>>
                                  \o (IF deletes THEN <<d.call.outcome>> ELSE <<>>)
                                  \o <<o3>>,
                                b.store, FALSE)
            /\ UNCHANGED <<now, paths, recon>>

\* the store calls of replaceBlob after the metadata was read and parsed:
\* put the new blob, update the metadata, and delete the old blob unless
\* its key is that of the new one.  A src that is no string gives a
\* delete that cannot reach the store.
ReplaceBlobWrites(file, existingMetadataPath, newBlobPath, r, oldSrc, o1, o2, o3, o4) ==
  \E metadata \in {MetadataOf(file, newBlobPath, now)} :
    \E b \in {CreateBinaryFileRun(store, r.cache, newBlobPath, file.bytes, o2)} :
      \E u \in {UpdateFileRun(b.store, b.cache, now, existingMetadataPath,
                              Units(StringifyMetadata(metadata)), o3)} :
        \E d \in {DeleteFileRun(u.store, u.cache, oldSrc.str,
                                IF oldSrc.type = "string" THEN o4 ELSE "fail")} :
          \E deletes \in {oldSrc # JsonString(newBlobPath)} :
            /\ store' = IF deletes THEN d.store ELSE u.store
            /\ cache' = IF deletes THEN d.cache ELSE u.cache
            /\ last' = BlobCall("replaceBlob", file, existingMetadataPath,
                                newBlobPath, oldSrc, metadata,
                                r.call.calls \o <<"put", "put">>
                                  \o (IF deletes THEN <<"delete">> ELSE <<>>),
                                [i \in 1..Len(r.call.calls) |-> existingMetadataPath]
                                  \o <<newBlobPath, existingMetadataPath>>
                                  \o (IF deletes THEN <<oldSrc.str>> ELSE <<>>),
                                [i \in 1..Len(r.call.calls) |-> o1]
                                  \o <<o2, o3>>
                                  \o (IF deletes THEN <<d.call.outcome>> ELSE <<>>),
                                b.store, FALSE)
            /\ UNCHANGED <<now, paths, recon>>

\* replaceBlob: a cache-enabled readFile of the metadata, JSON.parse of it,
\* then the writes; a metadata that is null or "" and a text that is no
\* JSON make it throw before any write
replaceBlob(file, existingMetadataPath, userPublicKey, newBlobId, o1, o2, o3, o4) ==
  /\ last = Idle
  /\ \E r \in {ReadFileRun(store, cache, now, existingMetadataPath, TRUE, o1)} :
       IF ~Truthy(r.call.value)
         THEN ReplaceBlobThrew(file, existingMetadataPath, r.cache, r.call.calls, o1)
       ELSE
         \E existingMetadata \in {ParseJson(Chars(r.call.value.text))} :
           IF existingMetadata.kind = "malformed"
             THEN ReplaceBlobThrew(file, existingMetadataPath, r.cache,
                                   r.call.calls, o1)
           ELSE
             ReplaceBlobWrites(
               file, existingMetadataPath,
               BlobPathOf(userPublicKey,
                          StripFilesSegment(
                            ReplaceFirst(existingMetadataPath,
                                         PubkyScheme \o userPublicKey, <<>>)),
                          newBlobId),
               r, Property(existingMetadata, "src"), o1, o2, o3, o4)

\* ------------------------------------------------------------------------
\* The blob manager over the facade: uploads, replacements, plain files
\* written to metadata keys, and time
\* ------------------------------------------------------------------------

BlobMetadataPaths == {MetadataPathOf(UserPublicKey, BasePath, id) : id \in MetadataIds}

\* plain content a metadata key can be given through the facade: "" and "x"
PlainContents == {<<>>, <<120>>}

UploadImage ==
  \E file \in BlobFiles, blobId \in BlobIds, metadataId \in MetadataIds,
     o1 \in WriteOutcomes, o2 \in WriteOutcomes :
    uploadImage(file, BasePath, UserPublicKey, blobId, metadataId, o1, o2)

ReplaceBlob ==
  \E file \in BlobFiles, p \in paths, newBlobId \in BlobIds,
     o1 \in ReadOutcomes, o2 \in WriteOutcomes, o3 \in WriteOutcomes,
     o4 \in WriteOutcomes :
    replaceBlob(file, p, UserPublicKey, newBlobId, o1, o2, o3, o4)

BlobCreateFile ==
  \E p \in paths, c \in PlainContents, o \in WriteOutcomes : createFile(p, c, o)

InitBlob ==
  /\ store = EmptyMap
  /\ cache = EmptyMap
  /\ now = 0
  /\ last = Idle
  /\ paths = BlobMetadataPaths
  /\ recon = ReconIdle

NextBlob == UploadImage \/ ReplaceBlob \/ BlobCreateFile \/ Return

SpecBlob == InitBlob /\ [][NextBlob]_vars

\* ------------------------------------------------------------------------
\* Properties of the facade (checked under Spec)
\* ------------------------------------------------------------------------

\* what is left of key k after the directory prefix nd is stripped
Remainder(nd, k) ==
  IF StartsWith(k, nd) THEN SubSeq(k, Len(nd) + 1, Len(k)) ELSE k

\* the keys a listing of nd has to drop
Dropped(nd, k) ==
  \/ k = nd
  \/ Includes(k, Sentinel)
  \/ StartsWith(Remainder(nd, k), <<".">>)
  \/ Includes(Remainder(nd, k), <<"/", "/">>)

\* the directory that contains a key: the key without its last segment (and
\* without the separator that may follow the last segment)
ParentDir(path) ==
  LET p == IF EndsWith(path, <<"/">>) THEN SubSeq(path, 1, Len(path) - 1) ELSE path
      cut == CHOOSE i \in 1..Len(p) :
               p[i] = "/" /\ \A j \in (i + 1)..Len(p) : p[j] # "/"
  IN SubSeq(p, 1, cut)

\* the readFile and the listFiles that would run next, with a store that
\* answers
NextRead(path, useCache) ==
  ReadFileRun(store, cache, now, path, useCache, "ok").call

NextList(dir, useCache) ==
  ListFilesRun(store, cache, now, dir, useCache, "ok").call

\* C1: when createFile(path, content) has returned true, the readFile(path,
\* useCache=false) that follows immediately returns exactly content (stated
\* for the paths readFile accepts).
C1_RoundTrip ==
  (last.op = "createFile" /\ last.ok /\ ~InvalidPath(last.path))
    => NextRead(last.path, FALSE).value = Text(last.content)

\* C2: after deleteFile(path) has returned true the cache holds no entry for
\* path and no listing of the parent directory of path, and the next
\* listFiles(parent, useCache=true) calls the store's list.
C2_DeleteCascades ==
  (last.op = "deleteFile" /\ last.ok)
    => /\ last.path \notin DOMAIN cache
       /\ ParentDir(last.path) \notin DOMAIN cache
       /\ NextList(ParentDir(last.path), TRUE).calls = <<"list">>

\* C3: after createFile(path, content) has returned true, the readFile(path,
\* useCache=true) that follows immediately is a cache hit: it returns content
\* and issues no store get (stated for the paths readFile accepts).
C3_CreateCachesContent ==
  (last.op = "createFile" /\ last.ok /\ ~InvalidPath(last.path))
    => /\ NextRead(last.path, TRUE).value = Text(last.content)
       /\ NextRead(last.path, TRUE).calls = <<>>

\* C4: after createFile(path, content) has returned true, the next
\* listFiles(parent, useCache=true) calls the store's list and its result
\* contains the new child (stated for the children a listing does not drop).
C4_CreateInvalidatesListing ==
  (last.op = "createFile" /\ last.ok /\ ~Dropped(ParentDir(last.path), last.path))
    => /\ NextList(ParentDir(last.path), TRUE).calls = <<"list">>
       /\ \E i \in 1..Len(NextList(ParentDir(last.path), TRUE).value.files) :
            NextList(ParentDir(last.path), TRUE).value.files[i].path = last.path

\* readFile went to the store and found zero-length data: the next cached
\* read of the key is a hit that returns ""
EmptyServedFromCache ==
  (last.op = "readFile" /\ last.calls = <<"get">> /\ last.value = Text(<<>>))
    => \A o \in ReadOutcomes :
         LET r == ReadFileRun(store, cache, now, last.path, TRUE, o).call
         IN r.value = Text(<<>>) /\ r.calls = <<>>

\* C5 as stated: readFile returns "" for a key that exists with zero-length
\* content (from the store and afterwards from the cache) and returns null
\* only when the key is not found or the read fails.
C5_EmptyVersusAbsent ==
  /\ (/\ last.op = "readFile" /\ ~last.useCache /\ last.outcome = "ok"
      /\ last.path \in DOMAIN store /\ store[last.path] = <<>>)
       => last.value = Text(<<>>)
  /\ (last.op = "readFile" /\ last.value = NullV)
       => (last.path \notin DOMAIN store \/ last.outcome = "fail")
  /\ EmptyServedFromCache

\* C5 as amended: the same for the paths readFile accepts; a path that is
\* empty or contains the sentinel yields null without a read.
C5_EmptyVersusAbsentValidPath ==
  /\ (/\ last.op = "readFile" /\ ~last.useCache /\ last.outcome = "ok"
      /\ last.path \in DOMAIN store /\ store[last.path] = <<>>
      /\ ~InvalidPath(last.path))
       => last.value = Text(<<>>)
  /\ (last.op = "readFile" /\ last.value = NullV)
       => \/ InvalidPath(last.path)
          \/ last.path \notin DOMAIN store
          \/ last.outcome = "fail"
  /\ (last.op = "readFile" /\ InvalidPath(last.path))
       => (last.value = NullV /\ last.calls = <<>>)
  /\ EmptyServedFromCache

\* an empty file was read from the store and is now cached as ""
C5_Witness ==
  /\ last.op = "readFile"
  /\ last.calls = <<"get">>
  /\ last.value = Text(<<>>)
  /\ last.path \in DOMAIN store /\ store[last.path] = <<>>
  /\ last.path \in DOMAIN cache /\ cache[last.path].data = Text(<<>>)

\* the cache key a read call uses
ReadKey(call) ==
  IF call.op = "listFiles" THEN NormalizePath(call.path) ELSE call.path

\* C6: a read (readFile with a path it accepts, or listFiles) with
\* useCache=true and a valid cache entry returns the cached value without
\* contacting the store; with useCache=false or on a miss it queries the
\* store, and a successful store result is in the cache when it is returned.
\* (For listFiles an entry that holds the empty string counts as a miss.)
C6_ReadCachingProtocol ==
  [][(/\ last = Idle
      /\ last'.op \in {"readFile", "listFiles"}
      /\ ~(last'.op = "readFile" /\ InvalidPath(last'.path)))
       => LET entry == CacheGetValue(cache, ReadKey(last'), now)
              valid == /\ last'.useCache
                       /\ IF last'.op = "readFile" THEN entry # NullV
                          ELSE Truthy(entry)
          IN /\ valid => (last'.calls = <<>> /\ last'.value = entry)
             /\ ~valid =>
                  /\ last'.calls = (IF last'.op = "readFile" THEN <<"get">> ELSE <<"list">>)
                  /\ (last'.outcome = "ok" /\ last'.value # NullV)
                       => CacheGetValue(cache', ReadKey(last'), now') = last'.value
    ]_vars

\* C7: an updateFile(path, content) that returns true sets the cached value
\* at path to content and changes no other cache entry; a cached listing of
\* the parent directory stays in place.
C7_UpdateFrame ==
  [][(last = Idle /\ last'.op = "updateFile" /\ last'.ok)
       => /\ last'.path \in DOMAIN cache'
          /\ cache'[last'.path].data = Text(last'.content)
          /\ DOMAIN cache' = (DOMAIN cache) \cup {last'.path}
          /\ \A k \in (DOMAIN cache) \ {last'.path} : cache'[k] = cache[k]
    ]_vars

\* an update has succeeded while the listing of the parent directory was
\* cached, and the listing is still there
C7_Witness ==
  /\ last.op = "updateFile"
  /\ last.ok
  /\ cache[last.path].data = Text(last.content)
  /\ ParentDir(last.path) \in DOMAIN cache
  /\ cache[ParentDir(last.path)].data.kind = "json"

\* ------------------------------------------------------------------------
\* Directory reconstruction on its own: listFiles' loop, map and sort applied
\* to an arbitrary answer of the store
\* ------------------------------------------------------------------------

\* the keys a store answer is made of
ReconKeys ==
  <<Root, KeyA, KeyADir, KeyAX, KeyAY, KeyB, KeySentinel, KeyHidden, KeyDouble,
    KeyBlank, KeyStray, KeyUpperB>>

RECURSIVE Reverse(_)
Reverse(seq) ==
  IF Len(seq) = 0 THEN <<>> ELSE Append(Reverse(Tail(seq)), seq[1])

\* the keys of ReconKeys with an index in idx, in the store's order or in
\* the opposite order
Answer(idx, reversed) ==
  LET RECURSIVE pick(_)
      pick(i) ==
        IF i > Len(ReconKeys) THEN <<>>
        ELSE (IF i \in idx THEN <<ReconKeys[i]>> ELSE <<>>) \o pick(i + 1)
  IN IF reversed THEN Reverse(pick(1)) ELSE pick(1)

ReconInputs ==
  {[dir |-> d, urls |-> Answer(idx, r), files |-> <<>>, done |-> FALSE] :
     d \in DirPaths, idx \in SUBSET (1..Len(ReconKeys)), r \in BOOLEAN}

InitRecon ==
  /\ store = EmptyMap
  /\ cache = EmptyMap
  /\ now = 0
  /\ last = Idle
  /\ paths = {}
  /\ recon \in ReconInputs

\* lines 140-202 of listFiles applied to recon.urls
Reconstruct ==
  /\ ~recon.done
  /\ recon' = [recon EXCEPT
                 !.files = BuildListing(NormalizePath(recon.dir), recon.urls),
                 !.done = TRUE]
  /\ UNCHANGED <<store, cache, now, last, paths>>

NextRecon == Reconstruct

SpecRecon == InitRecon /\ [][NextRecon]_vars

\* ------------------------------------------------------------------------
\* Properties of directory reconstruction (checked under SpecRecon)
\* ------------------------------------------------------------------------

ReconDir == NormalizePath(recon.dir)

ReconNodes == {recon.files[i] : i \in 1..Len(recon.files)}

ReconUrls == {recon.urls[i] : i \in 1..Len(recon.urls)}

\* C8: every node of a listing is an immediate child of the directory: its
\* name is non-empty and has no separator, its path is the normalized
\* directory followed by the name (and a separator for a directory), it
\* stands for a key of the store's answer, and a key nested more than one
\* level deep is never a file node.
C8_ImmediateChildren ==
  recon.done =>
    \A f \in ReconNodes :
      /\ Len(f.name) > 0
      /\ ~Includes(f.name, <<"/">>)
      /\ f.path = ReconDir \o f.name \o (IF f.isDirectory THEN <<"/">> ELSE <<>>)
      /\ IF f.isDirectory
           THEN \E u \in ReconUrls : StartsWith(u, f.path)
           ELSE f.path \in ReconUrls
      /\ \A u \in ReconUrls :
           (StartsWith(u, ReconDir) /\ Includes(Remainder(ReconDir, u), <<"/">>))
             => ~(~f.isDirectory /\ f.path = u)

\* a listing of the root with a directory node and a file node, built from an
\* answer that holds nested keys
C8_Witness ==
  /\ recon.done
  /\ recon.dir = Root
  /\ {KeyAX, KeyAY, KeyB} \subseteq ReconUrls
  /\ \E f \in ReconNodes : f.isDirectory /\ f.name = <<"a">>
  /\ \E f \in ReconNodes : ~f.isDirectory /\ f.path = KeyB

\* the answer of the store in the example of section 8
ExampleUrls == <<KeyADir, KeyAX, KeyB, KeySentinel, KeyHidden, KeyStray>>

ExampleListing ==
  << [name |-> <<"a">>, path |-> KeyADir, isDirectory |-> TRUE],
     [name |-> <<"b", ".", "t", "x", "t">>, path |-> KeyB, isDirectory |-> FALSE] >>

\* C9: reconstruction drops the key equal to the prefix, the keys with the
\* sentinel, the keys whose remainder starts with "." and the keys with a
\* doubled separator: the listing is the listing of the other keys, no node
\* has the path of a dropped key, and the example answer lists exactly
\* a (directory) and b.txt (file).
C9_DropsInvalidKeys ==
  recon.done =>
    /\ recon.files =
         BuildListing(ReconDir, SelectSeq(recon.urls, LAMBDA k : ~Dropped(ReconDir, k)))
    /\ \A f \in ReconNodes : \A u \in ReconUrls :
         Dropped(ReconDir, u) => f.path # u
    /\ (recon.dir = Root /\ recon.urls = ExampleUrls) => recon.files = ExampleListing

C9_Witness ==
  /\ recon.done
  /\ recon.dir = Root
  /\ recon.urls = ExampleUrls
  /\ recon.files = ExampleListing

\* C10 as stated: no two nodes of one listing share a name.
C10_UniqueNames ==
  recon.done =>
    \A i, j \in 1..Len(recon.files) :
      i # j => recon.files[i].name # recon.files[j].name

\* C10 as amended: a listing holds at most one directory node and at most one
\* file node per name (no two nodes share name and kind), however many
\* descendant keys lead to a directory.
C10_UniqueNameAndKind ==
  recon.done =>
    \A i, j \in 1..Len(recon.files) :
      i # j => \/ recon.files[i].name # recon.files[j].name
               \/ recon.files[i].isDirectory # recon.files[j].isDirectory

\* the directory a is reached through three keys and listed once
C10_Witness ==
  /\ recon.done
  /\ recon.dir = Root
  /\ {KeyADir, KeyAX, KeyAY} \subseteq ReconUrls
  /\ Cardinality({i \in 1..Len(recon.files) :
                    recon.files[i].name = <<"a">> /\ recon.files[i].isDirectory}) = 1

\* the order of the UTF-16 code units of the characters that occur in names
CodeUnitOrder ==
  <<" ", "-", ".", "/", "0", "1", "2", "3", "4", "5", "6", "7", "8", "9", ":",
    "A", "B", "C", "D", "E", "F", "G", "H", "I", "J", "K", "L", "M", "N", "O",
    "P", "Q", "R", "S", "T", "U", "V", "W", "X", "Y", "Z", "_",
    "a", "b", "c", "d", "e", "f", "g", "h", "i", "j", "k", "l", "m", "n", "o",
    "p", "q", "r", "s", "t", "u", "v", "w", "x", "y", "z">>

CodeUnitRank(ch) == CHOOSE i \in 1..Len(CodeUnitOrder) : CodeUnitOrder[i] = ch

\* every directory node precedes every file node
DirectoriesFirst ==
  \A i, j \in 1..Len(recon.files) :
    (recon.files[i].isDirectory /\ ~recon.files[j].isDirectory) => i < j

\* comparison of two strings by the code units of their characters
RECURSIVE CodeUnitCompare(_, _)
CodeUnitCompare(a, b) ==
  IF Len(a) = 0 /\ Len(b) = 0 THEN 0
  ELSE IF Len(a) = 0 THEN -1
  ELSE IF Len(b) = 0 THEN 1
  ELSE IF CodeUnitRank(a[1]) < CodeUnitRank(b[1]) THEN -1
  ELSE IF CodeUnitRank(a[1]) > CodeUnitRank(b[1]) THEN 1
  ELSE CodeUnitCompare(Tail(a), Tail(b))

\* two nodes of the same kind, the first listed before the second
SameGroupPairs ==
  {p \in (1..Len(recon.files)) \X (1..Len(recon.files)) :
     p[1] < p[2] /\ recon.files[p[1]].isDirectory = recon.files[p[2]].isDirectory}

\* C11 as stated: directories precede files, and within each group the
\* names ascend in lexicographic (code unit) order.
C11_SortedLexicographic ==
  recon.done =>
    /\ DirectoriesFirst
    /\ \A p \in SameGroupPairs :
         CodeUnitCompare(recon.files[p[1]].name, recon.files[p[2]].name) <= 0

\* C11 as amended: directories precede files, and within each group the
\* names ascend in the collation order of localeCompare (a before B).
C11_SortedByCollation ==
  recon.done =>
    /\ DirectoriesFirst
    /\ \A p \in SameGroupPairs :
         LocaleCompare(recon.files[p[1]].name, recon.files[p[2]].name) <= 0

\* the directory a, then the files a, B and b.txt, from an answer that held
\* them in the opposite order
C11_Witness ==
  /\ recon.done
  /\ recon.dir = Root
  /\ recon.urls = <<KeyUpperB, KeyStray, KeyB, KeyAX, KeyA>>
  /\ recon.files =
       << [name |-> <<"a">>, path |-> KeyADir, isDirectory |-> TRUE],
          [name |-> <<"a">>, path |-> KeyA, isDirectory |-> FALSE],
          [name |-> <<"B">>, path |-> KeyUpperB, isDirectory |-> FALSE],
          [name |-> <<"b", ".", "t", "x", "t">>, path |-> KeyB, isDirectory |-> FALSE] >>

\* ------------------------------------------------------------------------
\* Properties of the composite operations (checked under SpecOps)
\* ------------------------------------------------------------------------

\* C12: after createDirectory(dirPath) has returned true, with or without a
\* trailing separator in dirPath, the next listFiles(parent, useCache=true)
\* calls the store's list.
C12_CreateDirectoryInvalidatesParent ==
  (last.op = "createDirectory" /\ last.ok)
    => NextList(ParentDir(last.path), TRUE).calls = <<"list">>

\* the outcome of the last store call of a facade call
LastStep(call) == call.steps[Len(call.steps)]

\* C13: copyFile(src, dst) returns false and issues no store write when the
\* cache-enabled read of src yields null; otherwise it issues one put that
\* writes to dst exactly the content the read returned, and it returns the
\* result of that write.
C13_CopyFile ==
  [][(last = Idle /\ last'.op = "copyFile")
       => LET rd == ReadFileRun(store, cache, now, last'.path, TRUE,
                                last'.outcome).call
          IN IF rd.value = NullV
               THEN /\ ~last'.ok
                    /\ \A i \in 1..Len(last'.calls) : last'.calls[i] # "put"
                    /\ store' = store
             ELSE /\ last'.calls = rd.calls \o <<"put">>
                  /\ store' = PutStore(store, last'.dest, TextEncode(rd.value.text),
                                       LastStep(last'))
                  /\ last'.ok = PutResult(LastStep(last'))
    ]_vars

\* a copy from one key to another has succeeded with content served by the
\* cache, and the destination holds that content
C13_Witness ==
  /\ last.op = "copyFile"
  /\ last.ok
  /\ last.calls = <<"put">>
  /\ last.dest # last.path
  /\ last.content = <<120>>
  /\ store[last.dest] = TextEncode(last.content)

\* the write of the destination was issued and the store reported success
PutSucceeded(call) ==
  \E i \in 1..Len(call.calls) : call.calls[i] = "put" /\ call.steps[i] = "ok"

\* a delete is issued only directly after a put that succeeded, and a put
\* that succeeded is followed by the delete
DeleteAfterWrite(call) ==
  /\ \A i \in 1..Len(call.calls) :
       call.calls[i] = "delete"
         => (i > 1 /\ call.calls[i - 1] = "put" /\ call.steps[i - 1] = "ok")
  /\ PutSucceeded(call) => call.calls[Len(call.calls)] = "delete"

\* key k is the same object, or absent, in stores s and t
SameObject(s, t, k) ==
  /\ (k \in DOMAIN s) <=> (k \in DOMAIN t)
  /\ (k \in DOMAIN s) => (t[k] = s[k])

\* an entry that cache c holds for key k is the entry cache d holds
EntryKept(c, d, k) ==
  (k \in DOMAIN c) => (k \in DOMAIN d /\ d[k] = c[k])

StoreFailed(call) ==
  \E i \in 1..Len(call.steps) : call.steps[i] # "ok"

\* C15: a facade call during which a store call failed, threw or timed out
\* returns false (null for readFile, an empty list for listFiles).
C15_FailureSignals ==
  (last.op # "none" /\ StoreFailed(last))
    => IF last.op = "readFile" THEN last.value = NullV
       ELSE IF last.op = "listFiles" THEN last.value = JsonStringify(<<>>)
       ELSE ~last.ok

\* ------------------------------------------------------------------------
\* Properties of the cache (checked under SpecCache)
\* ------------------------------------------------------------------------

\* C16: after set(k, v, ttl) with a positive ttl, get(k) returns v at every
\* time with age < ttl; at every time with age >= ttl it reports a miss and
\* the entry is gone from the cache (and so from its stats).
C16_TimeToLive ==
  (last.op = "get" /\ last.tracked /\ last.ttl > 0)
    => IF last.age < last.ttl
         THEN last.result = last.data
         ELSE last.result = NullV /\ last.path \notin DOMAIN cache

\* C17: after set(k, v, 0), get(k) reports a miss at any time, the instant
\* of the set included.
C17_ZeroTtl ==
  (last.op = "get" /\ last.tracked /\ last.ttl = 0) => last.result = NullV

\* pattern p matches key k, "*" standing for any substring
RECURSIVE Matches(_, _)
Matches(p, k) ==
  IF Len(p) = 0 THEN Len(k) = 0
  ELSE IF p[1] = "*"
    THEN \E i \in 0..Len(k) : Matches(Tail(p), SubSeq(k, i + 1, Len(k)))
  ELSE Len(k) > 0 /\ p[1] = k[1] /\ Matches(Tail(p), Tail(k))

\* C18: an invalidation removes exactly the entries whose key matches the
\* pattern, the wildcard standing for any substring, and leaves every other
\* entry as it was; a pattern without a wildcard removes only the entry
\* whose key equals it.
C18_PatternInvalidation ==
  last.op = "invalidate"
    => /\ DOMAIN cache = {k \in DOMAIN last.before : ~Matches(last.path, k)}
       /\ \A k \in DOMAIN cache : cache[k] = last.before[k]

\* ------------------------------------------------------------------------
\* Properties of the capability check (checked under SpecAuth)
\* ------------------------------------------------------------------------

\* the key lies under pubky://<owner>/pub/
UnderOwnPub(owner, key) == StartsWith(key, PubkyScheme \o owner \o PubSegment)

\* the path of a key of the owner, from /pub/ on
CanonicalPath(owner, key) ==
  SubSeq(key, Len(PubkyScheme \o owner) + 1, Len(key))

\* C19: the check is false for every key that is not under
\* pubky://<owner>/pub/, whatever the capability list, and true for a key of
\* the owner that lies under the path of a grant with write permission.
C19_OwnPubOnly ==
  last.op = "hasWriteAccess"
    => /\ ~UnderOwnPub(last.owner, last.path) => ~last.result
       /\ (/\ UnderOwnPub(last.owner, last.path)
           /\ \E g \in last.grants :
                /\ Includes(g.permission, <<"w">>)
                /\ StartsWith(CanonicalPath(last.owner, last.path), g.path))
            => last.result

\* the example: the grant on /pub/app/ with write permission authorizes
\* pubky://owner/pub/app/sub/file.txt
C19_Witness ==
  /\ last.op = "hasWriteAccess"
  /\ last.grants = {GrantApp}
  /\ last.path = KeyAppFile
  /\ UnderOwnPub(last.owner, last.path)
  /\ last.result

\* ------------------------------------------------------------------------
\* Properties of the metadata parser (checked under SpecMeta)
\* ------------------------------------------------------------------------

\* the content deserializes to an object with the five properties of the
\* right types and a src under the store's scheme
WellFormedRecord(doc) ==
  /\ doc.kind = "object"
  /\ \A f \in {"name", "src", "content_type"} : doc.fields[f].type = "string"
  /\ \A f \in {"created_at", "size"} : doc.fields[f].type = "number"
  /\ StartsWith(doc.fields["src"].str, PubkyScheme)

\* C20: parse returns the record exactly when the content deserializes to
\* an object whose name, src and content_type are strings, whose created_at
\* and size are numbers and whose src starts with pubky://; for every other
\* content, malformed content included, it returns null; isMetadata is true
\* exactly when parse does not return null.
C20_ParseMetadata ==
  last.op = "parseBlobMetadata"
    => /\ WellFormedRecord(last.input) => last.result = last.input
       /\ ~WellFormedRecord(last.input) => last.result = NoMetadata
       /\ last.isMetadata <=> (last.result # NoMetadata)

\* a well-formed record has been parsed
C20_Witness ==
  /\ last.op = "parseBlobMetadata"
  /\ WellFormedRecord(last.input)
  /\ last.result = last.input
  /\ last.isMetadata

\* ------------------------------------------------------------------------
\* Properties of the blob manager (checked under SpecBlob)
\* ------------------------------------------------------------------------

\* parse(readFile(path)) with the readFile that would run next: the record,
\* or NoMetadata
NextParse(path) ==
  parseBlobMetadata(ParseJson(Chars(NextRead(path, TRUE).value.text)))

\* the record the store holds at path, or NoMetadata
StoredRecord(s, path) ==
  IF path \in DOMAIN s
    THEN parseBlobMetadata(ParseJson(Chars(DecodeContent(s[path]))))
  ELSE NoMetadata

\* the positions of the store calls of one kind on one url
CallsOn(call, kind, url) ==
  {i \in 1..Len(call.calls) : call.calls[i] = kind /\ call.urls[i] = url}

\* C21: uploadImage puts the blob first and the metadata second, and when
\* it has returned, parse(readFile(metadataPath)) is a record whose src is
\* the returned blob path and whose size and content_type are those of the
\* uploaded file.
C21_UploadThenParse ==
  (last.op = "uploadImage" /\ ~last.threw)
    => /\ last.calls = <<"put", "put">>
       /\ last.urls = <<last.blobPath, last.path>>
       /\ NextParse(last.path) # NoMetadata
       /\ Property(NextParse(last.path), "src") = JsonString(last.blobPath)
       /\ Property(NextParse(last.path), "size") = JsonNumberOf(Len(last.file.bytes))
       /\ Property(NextParse(last.path), "content_type") = JsonString(last.file.type)

\* C22: whenever uploadImage or replaceBlob has written a metadata record
\* to the store, the key its src names was in the store at the moment the
\* write was issued.
C22_SrcExistsAtCreation ==
  (/\ last.op \in {"uploadImage", "replaceBlob"}
   /\ ~last.threw
   /\ \E i \in CallsOn(last, "put", last.path) : last.steps[i] # "fail")
    => last.blobPath \in DOMAIN last.mid

\* the path is base/files/m and the blob path base/blobs/id for a base and
\* two identifiers
SameBasePath(path, blobPath) ==
  \E k \in 1..Len(path), m \in MetadataIds, id \in BlobIds :
    /\ path = SubSeq(path, 1, k) \o FilesSegment \o m
    /\ blobPath = SubSeq(path, 1, k) \o BlobsSegment \o id

\* C23: a replaceBlob that got to its writes puts the metadata at the key
\* it was given, with a record whose src is a blob path allocated in this
\* call under the same base path (the store holds that record when the put
\* was applied); the delete of the old blob comes after the put of the
\* metadata; and the call returns normally whatever the delete does.
C23_ReplaceInPlace ==
  (last.op = "replaceBlob" /\ (~last.threw \/ CallsOn(last, "put", last.path) # {}))
    => /\ ~last.threw
       /\ Cardinality(CallsOn(last, "put", last.path)) = 1
       /\ SameBasePath(last.path, last.blobPath)
       /\ Property(last.metadata, "src") = JsonString(last.blobPath)
       /\ \A i \in CallsOn(last, "put", last.path) :
            last.steps[i] # "fail" => StoredRecord(store, last.path) = last.metadata
       /\ \A i \in 1..Len(last.calls) :
            last.calls[i] = "delete"
              => /\ last.urls[i] = last.oldSrc.str
                 /\ \E j \in CallsOn(last, "put", last.path) : j < i

\* a replaceBlob that returned although the delete of the old blob failed,
\* with the metadata rewritten
C23_Witness ==
  /\ last.op = "replaceBlob"
  /\ ~last.threw
  /\ \E i \in 1..Len(last.calls) : last.calls[i] = "delete" /\ last.steps[i] = "fail"
  /\ StoredRecord(store, last.path) = last.metadata
  /\ last.oldSrc.str \in DOMAIN store

\* C30: replaceBlob issues the delete of the old blob only if the new blob
\* is in the store and the metadata put was applied, and when the record
\* named an existing blob before the call, the src of the record stored
\* after it names a key of the store.
C30_ReplaceKeepsACopy ==
  (last.op = "replaceBlob" /\ ~last.threw)
    => /\ (\E i \in 1..Len(last.calls) : last.calls[i] = "delete")
            => /\ last.blobPath \in DOMAIN last.mid
               /\ \E j \in CallsOn(last, "put", last.path) : last.steps[j] # "fail"
       /\ (last.oldSrc.str \in DOMAIN last.mid /\ StoredRecord(store, last.path) # NoMetadata)
            => Property(StoredRecord(store, last.path), "src").str \in DOMAIN store

\* ------------------------------------------------------------------------
\* Cached listings and cache keys (checked under Spec)
\* ------------------------------------------------------------------------

\* C28: after a listFiles whose store list failed (it returned an empty
\* list), the next listFiles of the same directory with useCache=true
\* calls the store's list again.
C28_FailedListingNotCached ==
  (last.op = "listFiles" /\ last.calls = <<"list">> /\ last.outcome = "fail")
    => NextList(last.path, TRUE).calls = <<"list">>

\* C29: a readFile with useCache=true never returns the serialized listing
\* that listFiles stored, and a listFiles with useCache=true never finds
\* file content under the key of its listing.
C29_DisjointCacheKeys ==
  /\ (last.op = "readFile" /\ last.useCache) => last.value.kind # "json"
  /\ (last.op = "listFiles" /\ last.useCache /\ last.calls = <<>>)
       => ~last.threw

\* ------------------------------------------------------------------------
\* The facade used by one caller at a time against a store that answers
\* every call: no operation overlaps another and no store call fails
\* ------------------------------------------------------------------------

CoCreateFile ==
  \E p \in paths, c \in OpsContents : createFile(p, c, "ok")
CoUpdateFile ==
  \E p \in paths, c \in OpsContents : updateFile(p, c, "ok")
CoDeleteFile ==
  \E p \in paths : deleteFile(p, "ok")
CoCreateDirectory ==
  \E d \in OpsDirArgs : createDirectory(d, "ok")
CoCopyFile ==
  \E p \in paths, q \in paths : copyFile(p, q, "ok", "ok")
CoMoveFile ==
  \E p \in paths, q \in paths : moveFile(p, q, "ok", "ok", "ok")
CoListFiles ==
  \E d \in OpsDirPaths, u \in BOOLEAN : listFiles(d, u, "ok")

InitCoherent ==
  /\ store = EmptyMap
  /\ cache = EmptyMap
  /\ now = 0
  /\ last = Idle
  /\ paths = OpsPaths
  /\ recon = ReconIdle

NextCoherent ==
  \/ CoCreateFile \/ CoUpdateFile \/ CoDeleteFile \/ CoCreateDirectory
  \/ CoCopyFile \/ CoMoveFile \/ CoListFiles \/ Return

SpecCoherent == InitCoherent /\ [][NextCoherent]_vars

\* the children a listFiles call returned: name and isDirectory of each
ChildrenOf(call) ==
  {<<call.value.files[i].name, call.value.files[i].isDirectory>> :
     i \in 1..Len(call.value.files)}

\* C27: between two operations, for every directory D the children (name
\* and isDirectory) that listFiles(D, useCache=true) would return are those
\* that listFiles(D, useCache=false) would return.
C27_ListingCoherence ==
  last = Idle =>
    \A d \in OpsDirPaths :
      ChildrenOf(NextList(d, TRUE)) = ChildrenOf(NextList(d, FALSE))

\* ------------------------------------------------------------------------
\* One facade call and the store call it waits for: the store answers or it
\* does not, and the timer of withTimeout rejects the race where there is one
\* ------------------------------------------------------------------------

\* withTimeout(promise, 30000)
TIMEOUT_MS == 30000

\* timers that may fire in one run
MaxTimeouts == 2

TimeoutPaths == {KeyB}

TimeoutContents == {<<120>>}

\* the PubkyClient method each facade operation awaits
StoreCallOf(op) ==
  CASE op = "readFile" -> "get"
    [] op = "createFile" -> "put"
    [] op = "updateFile" -> "put"
    [] op = "deleteFile" -> "delete"
    [] op = "listFiles" -> "list"

\* the promises PubkyClient passes to withTimeout: the fetch of get, put and
\* delete and the arrayBuffer() of get; client.list(...) is awaited bare
Timed(kind, stage) == kind \in {"get", "put", "delete"}

\* the facade operation run to its end with the outcome o of its store call
RunOf(s, c, t, op, path, content, useCache, o) ==
  CASE op = "readFile" ->
         CHOOSE x \in {[store |-> s, cache |-> r.cache, call |-> r.call] :
                         r \in {ReadFileRun(s, c, t, path, useCache, o)}} : TRUE
    [] op = "listFiles" ->
         CHOOSE x \in {[store |-> s, cache |-> r.cache, call |-> r.call] :
                         r \in {ListFilesRun(s, c, t, path, useCache, o)}} : TRUE
    [] op = "createFile" -> CreateFileRun(s, c, t, path, content, o)
    [] op = "updateFile" -> UpdateFileRun(s, c, t, path, content, o)
    [] op = "deleteFile" -> DeleteFileRun(s, c, path, o)

\* a task: the operation, the promise it awaits (stage 1 is the fetch or the
\* list, stage 2 the arrayBuffer() of a get), when that promise was created,
\* the store calls issued so far and the call record once it has returned
Task(op, path, content, useCache, phase, stage, started, attempts, result) ==
  [op |-> op, path |-> path, content |-> content, useCache |-> useCache,
   kind |-> StoreCallOf(op), phase |-> phase, stage |-> stage,
   started |-> started, attempts |-> attempts, result |-> result]

NoTask == [phase |-> "idle"]

\* the operation starts: it returns at once when it needs no store call (a
\* cache hit), otherwise it issues the call and waits
Begin(op, path, content, useCache) ==
  /\ last = NoTask
  /\ now < MaxTimeouts * TIMEOUT_MS
  /\ \E r \in {RunOf(store, cache, now, op, path, content, useCache, "ok")} :
       IF r.call.calls = <<>>
         THEN /\ cache' = r.cache
              /\ last' = Task(op, path, content, useCache, "returned", 0, now,
                              0, r.call)
              /\ UNCHANGED <<store, now, paths, recon>>
         ELSE /\ last' = Task(op, path, content, useCache, "waiting", 1, now,
                              1, Idle)
              /\ UNCHANGED <<store, cache, now, paths, recon>>

\* the awaited promise settles with outcome o and the operation runs to its
\* return statement
Settle(o) ==
  \E r \in {RunOf(store, cache, now', last.op, last.path, last.content,
                  last.useCache, o)} :
    /\ store' = r.store
    /\ cache' = r.cache
    /\ last' = [last EXCEPT !.phase = "returned", !.result = r.call]
    /\ UNCHANGED <<paths, recon>>

\* the store answers the fetch or the list
StoreAnswers ==
  /\ last.phase = "waiting"
  /\ last.stage = 1
  /\ now' = now
  /\ \/ /\ last.kind = "get"
        /\ \/ /\ last' = [last EXCEPT !.stage = 2, !.started = now]
              /\ UNCHANGED <<store, cache, paths, recon>>
           \/ Settle("fail")
     \/ /\ last.kind # "get"
        /\ \E o \in ReadOutcomes : Settle(o)

\* the body of the response to a get arrives
BodyArrives ==
  /\ last.phase = "waiting"
  /\ last.stage = 2
  /\ now' = now
  /\ Settle("ok")

\* the timer of withTimeout fires first: the race rejects, the catch block of
\* the client method returns null or false; a write that timed out may still
\* reach the store
TimerFires ==
  /\ last.phase = "waiting"
  /\ Timed(last.kind, last.stage)
  /\ now' = last.started + TIMEOUT_MS
  /\ \E o \in (IF last.kind = "get" THEN {"fail"} ELSE {"fail", "late"}) :
       Settle(o)

\* the caller takes the result
TaskReturn ==
  /\ last.phase = "returned"
  /\ last' = NoTask
  /\ UNCHANGED <<store, cache, now, paths, recon>>

BeginReadFile ==
  \E p \in TimeoutPaths, u \in BOOLEAN : Begin("readFile", p, <<>>, u)
BeginCreateFile ==
  \E p \in TimeoutPaths, c \in TimeoutContents : Begin("createFile", p, c, FALSE)
BeginUpdateFile ==
  \E p \in TimeoutPaths, c \in TimeoutContents : Begin("updateFile", p, c, FALSE)
BeginDeleteFile ==
  \E p \in TimeoutPaths : Begin("deleteFile", p, <<>>, FALSE)
BeginListFiles ==
  \E u \in BOOLEAN : Begin("listFiles", Root, <<>>, u)

InitTimeout ==
  /\ store = EmptyMap
  /\ cache = EmptyMap
  /\ now = 0
  /\ last = NoTask
  /\ paths = TimeoutPaths
  /\ recon = ReconIdle

NextTimeout ==
  \/ BeginReadFile \/ BeginCreateFile \/ BeginUpdateFile \/ BeginDeleteFile
  \/ BeginListFiles
  \/ StoreAnswers \/ BodyArrives \/ TimerFires \/ TaskReturn

\* the event loop runs a timer that is due and resumes a task whose promise
\* has settled; nothing makes the store answer
SpecTimeout ==
  /\ InitTimeout
  /\ [][NextTimeout]_vars
  /\ WF_vars(TimerFires)
  /\ WF_vars(TaskReturn)

\* C24: every facade operation that waits for the store eventually returns,
\* whether or not the store answers.
C24_EveryOperationReturns ==
  (last.phase = "waiting") ~> (last.phase = "returned")

\* ------------------------------------------------------------------------
\* Two callers on one key. Each operation awaits one store call: the
\* operation issues it, the store applies it at some moment, and the answer
\* reaches the caller at some later moment, in any order between the callers
\* ------------------------------------------------------------------------

Callers == {1, 2}

RaceKey == KeyB

\* what each caller writes: "x" and "y"
RaceContent == <<(<<120>>), (<<121>>)>>

RaceWrites == {"createFile", "updateFile"}

\* a caller's operation: issued, then answered by the store (resp, and for
\* a get the store the answer was read from), then returned with its call
RaceTask(op, useCache, phase, resp, snap, call, overlap) ==
  [op |-> op, useCache |-> useCache, phase |-> phase, resp |-> resp,
   snap |-> snap, call |-> call, overlap |-> overlap]

RaceIdle == RaceTask("none", FALSE, "idle", "none", EmptyMap, Idle, FALSE)

InFlight(task) == task.phase \in {"issued", "answered"}

Other(t) == 3 - t

\* a continuation that drops the key from the cache after a successful write
AfterAwait_writeEvicts(c, t, who, task) ==
  LET r == RunOf(task.snap, c, t, task.op, RaceKey, RaceContent[who], FALSE,
                 task.resp)
  IN IF task.op \in RaceWrites /\ task.resp = "ok"
       THEN [cache |-> CacheDelete(c, RaceKey), call |-> r.call]
       ELSE [cache |-> r.cache, call |-> r.call]

\* the part of the operation after its await, run at time t on the cache c
\* of that moment with the answer the store gave
AfterAwait(c, t, who, task) ==
  LET r == RunOf(task.snap, c, t, task.op, RaceKey, RaceContent[who], FALSE,
                 task.resp)
  IN [cache |-> r.cache, call |-> r.call]

\* caller t starts an operation: a cache-enabled readFile that hits the cache
\* returns at once, every other operation issues its store call and waits
RaceBegin(t, op, useCache) ==
  /\ ~InFlight(last.tasks[t])
  /\ \E r \in {ReadFileRun(store, cache, now, RaceKey, useCache, "ok")} :
       IF op = "readFile" /\ r.call.calls = <<>>
         THEN /\ cache' = r.cache
              /\ last' = [last EXCEPT
                            !.tasks[t] = RaceTask(op, useCache, "returned",
                                                  "none", EmptyMap, r.call, FALSE)]
         ELSE /\ cache' = cache
              /\ last' = [last EXCEPT
                            !.tasks[t] =
                               RaceTask(op, useCache, "issued", "none", EmptyMap,
                                        Idle, InFlight(last.tasks[Other(t)])),
                            !.tasks[Other(t)].overlap =
                               IF InFlight(last.tasks[Other(t)]) THEN TRUE ELSE @,
                            !.gone = IF op \in RaceWrites THEN FALSE ELSE @]
  /\ UNCHANGED <<store, now, paths, recon>>

\* the store applies the call of caller t with outcome o
RaceStoreApplies(t, o) ==
  /\ last.tasks[t].phase = "issued"
  /\ store' = CASE last.tasks[t].op \in RaceWrites ->
                     PutStore(store, RaceKey, TextEncode(RaceContent[t]), o)
                [] last.tasks[t].op = "deleteFile" -> DeleteStore(store, RaceKey, o)
                [] OTHER -> store
  /\ last' = [last EXCEPT
                !.tasks[t].phase = "answered",
                !.tasks[t].resp = o,
                !.tasks[t].snap = IF last.tasks[t].op = "readFile" THEN store
                                  ELSE EmptyMap,
                !.lastApplied = IF last.tasks[t].op \in RaceWrites /\ o = "ok"
                                  THEN t ELSE @]
  /\ UNCHANGED <<cache, now, paths, recon>>

\* the answer reaches caller t and its operation runs to its return
RaceDeliver(t) ==
  /\ last.tasks[t].phase = "answered"
  /\ \E r \in {AfterAwait(cache, now, t, last.tasks[t])} :
       /\ cache' = r.cache
       /\ last' = [last EXCEPT
                     !.tasks[t].phase = "returned",
                     !.tasks[t].snap = EmptyMap,
                     !.tasks[t].call = [r.call EXCEPT !.useCache = last.tasks[t].useCache],
                     !.lastDelivered = IF last.tasks[t].op \in RaceWrites /\ r.call.ok
                                         THEN t ELSE @,
                     !.gone = IF last.tasks[t].op = "deleteFile" /\ r.call.ok
                                THEN TRUE ELSE @]
  /\ UNCHANGED <<store, now, paths, recon>>

RaceReadFile ==
  \E t \in Callers, u \in BOOLEAN : RaceBegin(t, "readFile", u)
RaceCreateFile ==
  \E t \in Callers : RaceBegin(t, "createFile", FALSE)
RaceUpdateFile ==
  \E t \in Callers : RaceBegin(t, "updateFile", FALSE)
RaceDeleteFile ==
  \E t \in Callers : RaceBegin(t, "deleteFile", FALSE)
StoreApplies ==
  \E t \in Callers, o \in ReadOutcomes : RaceStoreApplies(t, o)
Deliver ==
  \E t \in Callers : RaceDeliver(t)

\* lastApplied and lastDelivered name the caller whose write the store
\* applied last and the caller whose successful write returned last; gone
\* holds from the return of a successful deleteFile to the next write issued
InitRace ==
  /\ store = EmptyMap
  /\ cache = EmptyMap
  /\ now = 0
  /\ last = [tasks |-> [t \in Callers |-> RaceIdle], lastApplied |-> 0,
             lastDelivered |-> 0, gone |-> FALSE]
  /\ paths = {RaceKey}
  /\ recon = ReconIdle

NextRace ==
  \/ RaceReadFile \/ RaceCreateFile \/ RaceUpdateFile \/ RaceDeleteFile
  \/ StoreApplies \/ Deliver

SpecRace == InitRace /\ [][NextRace]_vars

\* both callers have returned true from writes that were in flight at once
RacingWritesDone ==
  \A t \in Callers :
    /\ last.tasks[t].phase = "returned"
    /\ last.tasks[t].op \in RaceWrites
    /\ last.tasks[t].call.ok
    /\ last.tasks[t].overlap

\* C25: after two writes to one key that were in flight at once, the store
\* holds the content of the write it applied last; when the write that
\* returned last was an updateFile the cache holds that write's content,
\* whichever the store applied last, and a cache-enabled readFile returns it
\* without a store call; once the entry has expired or has been evicted the
\* readFile returns the content of the store.
C25_RacingWrites ==
  RacingWritesDone =>
    /\ store[RaceKey] = TextEncode(RaceContent[last.lastApplied])
    /\ last.tasks[last.lastDelivered].op = "updateFile"
         => /\ NextRead(RaceKey, TRUE).value = Text(RaceContent[last.lastDelivered])
            /\ NextRead(RaceKey, TRUE).calls = <<>>
    /\ ReadFileRun(store, cache, now + TTL_MS + 1, RaceKey, TRUE, "ok").call.value
         = Text(RaceContent[last.lastApplied])
    /\ ReadFileRun(store, CacheDelete(cache, RaceKey), now, RaceKey, TRUE, "ok").call.value
         = Text(RaceContent[last.lastApplied])

\* the store holds one caller's write and the cache serves the other's
C25_Witness ==
  /\ RacingWritesDone
  /\ last.lastApplied # last.lastDelivered
  /\ NextRead(RaceKey, TRUE).calls = <<>>
  /\ NextRead(RaceKey, TRUE).value = Text(RaceContent[last.lastDelivered])
  /\ store[RaceKey] = TextEncode(RaceContent[last.lastApplied])

\* C26: from the return of a successful deleteFile(p) until a write to p is
\* issued, a readFile(p, useCache=true) returns null and fileExists(p) is
\* false, whatever was in flight while the delete ran.
C26_DeletedNeverServed ==
  last.gone => NextRead(RaceKey, TRUE).value = NullV

\* ------------------------------------------------------------------------
\* Moves (checked under SpecOps)
\* ------------------------------------------------------------------------

\* C32: when moveFile(src, dst) returns true, src is no longer a key of the
\* store and dst holds the content that was moved.
C32_MoveTrueMeansMoved ==
  (last.op = "moveFile" /\ last.ok)
    => /\ last.path \notin DOMAIN store
       /\ last.dest \in DOMAIN store
       /\ store[last.dest] = TextEncode(last.content)

\* the move read its source: it went on to write the destination
MoveReadSource(call) ==
  call.op = "moveFile" /\ \E i \in 1..Len(call.calls) : call.calls[i] = "put"

\* C33: after a moveFile that read its source, the content it read is in the
\* store at src or at dst, for src = dst as for distinct keys.
C33_MoveKeepsContent ==
  MoveReadSource(last)
    => \E k \in {last.path, last.dest} :
         k \in DOMAIN store /\ store[k] = TextEncode(last.content)

\* ------------------------------------------------------------------------
\* getParentPath on its own: applied to the owner root and to the keys of
\* up to MaxDepth segments under it, with and without a trailing separator
\* ------------------------------------------------------------------------

\* pubky://u/
OwnerRoot == <<"p","u","b","k","y",":","/","/","u","/">>

ParentSegments == {<<"p","u","b">>, <<"a">>, <<"f",".","t","x","t">>}

MaxDepth == 3

\* the segment lists of length n
RECURSIVE SegmentLists(_)
SegmentLists(n) ==
  IF n = 0 THEN {<<>>}
  ELSE {Append(l, g) : l \in SegmentLists(n - 1), g \in ParentSegments}

\* the key with these segments under the owner root
KeyOf(segments) == OwnerRoot \o Join(segments)

ParentInputs ==
  UNION {{KeyOf(l), KeyOf(l) \o <<"/">>} : l \in UNION {SegmentLists(n) : n \in 0..MaxDepth}}

ParentCall(path, value, done) ==
  [op |-> "getParentPath", path |-> path, value |-> value, done |-> done]

GetParentPath ==
  /\ ~last.done
  /\ last' = ParentCall(last.path, getParentPath(last.path), TRUE)
  /\ UNCHANGED <<store, cache, now, paths, recon>>

InitParent ==
  /\ store = EmptyMap
  /\ cache = EmptyMap
  /\ now = 0
  /\ \E p \in ParentInputs : last = ParentCall(p, NoParent, FALSE)
  /\ paths = {}
  /\ recon = ReconIdle

NextParent == GetParentPath

SpecParent == InitParent /\ [][NextParent]_vars

\* a key whose last segment is a file name: no trailing separator
IsFileKey(path) ==
  /\ Len(path) > Len(OwnerRoot)
  /\ path[Len(path)] # "/"

\* the key up to and including its last separator
ContainingDirectory(path) ==
  SubSeq(path, 1, CHOOSE i \in 1..Len(path) :
                    /\ path[i] = "/"
                    /\ \A j \in (i + 1)..Len(path) : path[j] # "/")

\* C34: getParentPath returns null for the owner root pubky://u/, and for a
\* file key the containing directory with its trailing separator.
C34_ParentBelowOwnerRoot ==
  last.done =>
    /\ last.path = OwnerRoot => last.value = NoParent
    /\ IsFileKey(last.path) => last.value = ContainingDirectory(last.path)

\* ------------------------------------------------------------------------
\* Directories created under the root: a, a/ (trailing separator), a/c
\* (nested) and .hidden (a name with a leading dot)
\* ------------------------------------------------------------------------

DirsArgs == {KeyA, KeyADir, KeyADir \o <<"c">>, KeyHidden}

DirsFiles == {KeyAX, KeyB}

DirsCreateDirectory ==
  \E d \in DirsArgs, o \in WriteOutcomes : createDirectory(d, o)
DirsCreateFile ==
  \E p \in DirsFiles, o \in WriteOutcomes : createFile(p, <<120>>, o)
DirsDeleteFile ==
  \E p \in DirsFiles \cup {PlaceholderPath(d) : d \in DirsArgs}, o \in WriteOutcomes :
    deleteFile(p, o)

InitDirs ==
  /\ store = EmptyMap
  /\ cache = EmptyMap
  /\ now = 0
  /\ last = Idle
  /\ paths = DirsFiles
  /\ recon = ReconIdle

NextDirs == DirsCreateDirectory \/ DirsCreateFile \/ DirsDeleteFile \/ Return

SpecDirs == InitDirs /\ [][NextDirs]_vars

\* the directory path without its trailing separator
Unslashed(d) ==
  IF EndsWith(d, <<"/">>) THEN SubSeq(d, 1, Len(d) - 1) ELSE d

\* the last segment of the directory path and the directory it lies in
LastSegment(d) ==
  SubSeq(Unslashed(d), Len(ContainingDirectory(Unslashed(d))) + 1, Len(Unslashed(d)))

\* the nodes listFiles(dir, useCache=false) returns from the store as it is
ListedNow(dir) == NextList(dir, FALSE).value.files

ListsDirectory(dir, name) ==
  \E i \in 1..Len(ListedNow(dir)) :
    ListedNow(dir)[i].name = name /\ ListedNow(dir)[i].isDirectory

HidesPlaceholder(dir) ==
  \A i \in 1..Len(ListedNow(dir)) : ListedNow(dir)[i].name # DotPlaceholder

GrantCovers(g, owner, key) ==
  /\ Includes(g.permission, <<"w">>)
  /\ \/ StartsWith(CanonicalPath(owner, key), g.path)
     \/ StartsWith(g.path, CanonicalPath(owner, key))

DefaultCapability == <<"/","p","u","b","/","p","u","b","k","y","-","t","o","o","l","s","/",":","r","w">>

\* what the user types into the capability field
CapabilityInputs ==
  {<<"/","p","u","b","/","a",":","r","w">>,      \* /pub/a:rw
   <<"/","p","u","b","/","a",":">>,      \* /pub/a:
   <<" ","/","p","u","b","/","b",":","r">>,      \* " /pub/b:r" (leading blank)
   <<"/","p","r","i","v","/",":","r","w">>,      \* /priv/:rw
   <<"/","p","u","b","/","c">>}      \* /pub/c (no colon)

NoList == [set |-> FALSE, caps |-> {}]

SomeList(caps) == [set |-> TRUE, caps |-> caps]

\* session: the logged-in user's capability list; isOpen, capabilities,
\* isLoading: the dialog; request: the list put into the auth request whose
\* response is awaited; pending: localStorage["pubky-pending-capabilities"];
\* stagedCapabilities: the profile page; approved: the list of the request
\* that the last login answered
LoginState(op, session, isOpen, capabilities, isLoading, request, pending, stagedCapabilities, approved) ==
  [op |-> op, session |-> session, isOpen |-> isOpen,
   capabilities |-> capabilities, isLoading |-> isLoading, request |-> request,
   pending |-> pending, stagedCapabilities |-> stagedCapabilities,
   approved |-> approved]

\* the dialog opens; the effect on isOpen loads the pending list
OpenLogin ==
  /\ ~last.session.set
  /\ ~last.isOpen
  /\ last' = [last EXCEPT !.op = "open", !.isOpen = TRUE,
                          !.capabilities = IF last.pending.set
                                             THEN last.pending.caps ELSE @]
  /\ UNCHANGED <<store, cache, now, paths, recon>>

CloseLogin ==
  /\ last.isOpen
  /\ last' = [last EXCEPT !.op = "close", !.isOpen = FALSE]
  /\ UNCHANGED <<store, cache, now, paths, recon>>

\* LoginModal.addCapability with newCapability = text
addCapability(text) ==
  /\ last.isOpen
  /\ last' = [last EXCEPT
                !.op = "addCapability",
                !.capabilities =
                   IF /\ Len(Trim(text)) > 0
                      /\ StartsWith(Trim(text), PubSegment)
                      /\ Includes(Trim(text), <<":">>)
                      /\ Trim(text) \notin last.capabilities
                     THEN @ \cup {Trim(text)} ELSE @]
  /\ UNCHANGED <<store, cache, now, paths, recon>>

\* LoginModal.removeCapability
removeCapability(capToRemove) ==
  /\ last.isOpen
  /\ last' = [last EXCEPT
                !.op = "removeCapability",
                !.capabilities = IF Cardinality(@) <= 1 THEN @
                                 ELSE @ \ {capToRemove}]
  /\ UNCHANGED <<store, cache, now, paths, recon>>

\* LoginModal.generateAuthRequest up to the await of the response
generateAuthRequest ==
  /\ last.isOpen
  /\ ~last.isLoading
  /\ last' = [last EXCEPT !.op = "generateAuthRequest", !.isLoading = TRUE,
                          !.request = last.capabilities]
  /\ UNCHANGED <<store, cache, now, paths, recon>>

\* the user approves the request: generateAuthRequest resumes, logs in with
\* the pending list when there is one, else with its own list, clears the
\* pending list and closes the dialog; the profile page stages the list of
\* the new session
AuthResponse ==
  /\ last.isLoading
  /\ \E finalCapabilities \in
          {IF last.pending.set THEN last.pending.caps ELSE last.request} :
       last' = [last EXCEPT
                  !.op = "login", !.isLoading = FALSE, !.isOpen = FALSE,
                  !.session = SomeList(finalCapabilities),
                  !.stagedCapabilities = finalCapabilities,
                  !.approved = last.request,
                  !.pending = NoList]
  /\ UNCHANGED <<store, cache, now, paths, recon>>

\* the request is refused or fails
AuthFails ==
  /\ last.isLoading
  /\ last' = [last EXCEPT !.op = "authFailed", !.isLoading = FALSE]
  /\ UNCHANGED <<store, cache, now, paths, recon>>

\* Profile.handleAddCapability with newCapability = text
handleAddCapability(text) ==
  /\ last.session.set
  /\ last' = [last EXCEPT
                !.op = "handleAddCapability",
                !.stagedCapabilities =
                   IF /\ Len(Trim(text)) > 0
                      /\ StartsWith(text, PubSegment)
                      /\ Includes(text, <<":">>)
                      /\ text \notin last.stagedCapabilities
                     THEN @ \cup {text} ELSE @]
  /\ UNCHANGED <<store, cache, now, paths, recon>>

\* Profile.handleRemoveCapability
handleRemoveCapability(capabilityToRemove) ==
  /\ last.session.set
  /\ last' = [last EXCEPT
                !.op = "handleRemoveCapability",
                !.stagedCapabilities = IF Cardinality(@) <= 1 THEN @
                                       ELSE @ \ {capabilityToRemove}]
  /\ UNCHANGED <<store, cache, now, paths, recon>>

\* Profile.handleApplyChanges: the staged list goes to localStorage and the
\* session is cleared
handleApplyChanges ==
  /\ last.session.set
  /\ last.stagedCapabilities # last.session.caps
  /\ last' = [last EXCEPT !.op = "handleApplyChanges",
                          !.pending = SomeList(last.stagedCapabilities),
                          !.session = NoList]
  /\ UNCHANGED <<store, cache, now, paths, recon>>

\* Profile.handleDiscardChanges
handleDiscardChanges ==
  /\ last.session.set
  /\ last' = [last EXCEPT !.op = "handleDiscardChanges",
                          !.stagedCapabilities = last.session.caps]
  /\ UNCHANGED <<store, cache, now, paths, recon>>

Logout ==
  /\ last.session.set
  /\ last' = [last EXCEPT !.op = "logout", !.session = NoList]
  /\ UNCHANGED <<store, cache, now, paths, recon>>

AddCapability == \E text \in CapabilityInputs : addCapability(text)
RemoveCapability == \E cap \in last.capabilities : removeCapability(cap)
HandleAddCapability == \E text \in CapabilityInputs : handleAddCapability(text)
HandleRemoveCapability ==
  \E cap \in last.stagedCapabilities : handleRemoveCapability(cap)

InitLogin ==
  /\ store = EmptyMap
  /\ cache = EmptyMap
  /\ now = 0
  /\ last = LoginState("none", NoList, FALSE, {DefaultCapability}, FALSE, {},
                       NoList, {}, {})
  /\ paths = {}
  /\ recon = ReconIdle

NextLogin ==
  \/ OpenLogin \/ CloseLogin \/ AddCapability \/ RemoveCapability
  \/ generateAuthRequest \/ AuthResponse \/ AuthFails
  \/ HandleAddCapability \/ HandleRemoveCapability
  \/ handleApplyChanges \/ handleDiscardChanges \/ Logout

SpecLogin == InitLogin /\ [][NextLogin]_vars

\* the text after the first ":" of a capability string
PermissionOf(capability) ==
  IF IndexOf(capability, <<":">>) = 0 THEN <<>>
  ELSE SubSeq(capability, IndexOf(capability, <<":">>) + 1, Len(capability))

\* C37: the capability list of the session is never empty, and each of its
\* grants has a path that starts with /pub/ and a permission after the ":".
C37_GrantsWellFormed ==
  last.session.set =>
    /\ last.session.caps # {}
    /\ \A c \in last.session.caps :
         /\ StartsWith(c, PubSegment)
         /\ Len(PermissionOf(c)) > 0

\* C39: the capability list stored in the session by a login is the list of
\* the auth request that the login answered.
C39_SessionIsApprovedList ==
  last.op = "login" => last.session.caps = last.approved

\* ------------------------------------------------------------------------
\* MediaViewer: the content type of a file loaded as a direct blob
\* ------------------------------------------------------------------------

UpperCase == <<"A","B","C","D","E","F","G","H","I","J","K","L","M","N","O","P","Q","R","S","T","U","V","W","X","Y","Z">>
LowerCase == <<"a","b","c","d","e","f","g","h","i","j","k","l","m","n","o","p","q","r","s","t","u","v","w","x","y","z">>

\* String.prototype.toLowerCase
ToLowerCase(chars) ==
  [i \in 1..Len(chars) |->
     IF \E n \in 1..26 : UpperCase[n] = chars[i]
       THEN LowerCase[CHOOSE n \in 1..26 : UpperCase[n] = chars[i]]
       ELSE chars[i]]

\* String.prototype.lastIndexOf("."), from 1; 0 when there is no dot
LastDotIndex(fileName) ==
  IF \E i \in 1..Len(fileName) : fileName[i] = "." 
    THEN CHOOSE i \in 1..Len(fileName) :
           fileName[i] = "." /\ \A j \in (i + 1)..Len(fileName) : fileName[j] # "."
    ELSE 0

\* getFileExtension(fileName)
getFileExtension(fileName) ==
  IF LastDotIndex(fileName) = 0 \/ LastDotIndex(fileName) = Len(fileName)
    THEN <<>>
    ELSE ToLowerCase(SubSeq(fileName, LastDotIndex(fileName) + 1, Len(fileName)))

OctetStream == "application/octet-stream"

\* the own properties of the object literal mimeTypes
MimeTypes ==
  <<<<<<"j","p","g">>, "image/jpeg">>,
    <<<<"j","p","e","g">>, "image/jpeg">>,
    <<<<"p","n","g">>, "image/png">>,
    <<<<"g","i","f">>, "image/gif">>,
    <<<<"w","e","b","p">>, "image/webp">>,
    <<<<"s","v","g">>, "image/svg+xml">>,
    <<<<"b","m","p">>, "image/bmp">>,
    <<<<"i","c","o">>, "image/x-icon">>,
    <<<<"t","i","f","f">>, "image/tiff">>,
    <<<<"t","i","f">>, "image/tiff">>,
    <<<<"m","p","4">>, "video/mp4">>,
    <<<<"w","e","b","m">>, "video/webm">>,
    <<<<"o","g","v">>, "video/ogg">>,
    <<<<"a","v","i">>, "video/x-msvideo">>,
    <<<<"m","o","v">>, "video/quicktime">>,
    <<<<"w","m","v">>, "video/x-ms-wmv">>,
    <<<<"f","l","v">>, "video/x-flv">>,
    <<<<"m","k","v">>, "video/x-matroska">>,
    <<<<"m","p","3">>, "audio/mpeg">>,
    <<<<"w","a","v">>, "audio/wav">>,
    <<<<"f","l","a","c">>, "audio/flac">>,
    <<<<"o","g","g">>, "audio/ogg">>,
    <<<<"a","a","c">>, "audio/aac">>,
    <<<<"m","4","a">>, "audio/mp4">>,
    <<<<"o","p","u","s">>, "audio/opus">>,
    <<<<"w","m","a">>, "audio/x-ms-wma">>,
    <<<<"p","d","f">>, "application/pdf">>,
    <<<<"d","o","c">>, "application/msword">>,
    <<<<"d","o","c","x">>, "application/vnd.openxmlformats-officedocument.wordprocessingml.document">>,
    <<<<"x","l","s">>, "application/vnd.ms-excel">>,
    <<<<"x","l","s","x">>, "application/vnd.openxmlformats-officedocument.spreadsheetml.sheet">>,
    <<<<"p","p","t">>, "application/vnd.ms-powerpoint">>,
    <<<<"p","p","t","x">>, "application/vnd.openxmlformats-officedocument.presentationml.presentation">>,
    <<<<"z","i","p">>, "application/zip">>,
    <<<<"r","a","r">>, "application/vnd.rar">>,
    <<<<"7","z">>, "application/x-7z-compressed">>,
    <<<<"t","a","r">>, "application/x-tar">>,
    <<<<"g","z">>, "application/gzip">>>>

\* property names that every object literal inherits from Object.prototype;
\* their values are functions
InheritedNames ==
  {<<"c","o","n","s","t","r","u","c","t","o","r">>, <<"t","o","s","t","r","i","n","g">>}

\* mimeTypes[extension] || "application/octet-stream"
getContentTypeFromExtension(fileName) ==
  LET extension == ToLowerCase(getFileExtension(fileName))
  IN IF \E n \in 1..Len(MimeTypes) : MimeTypes[n][1] = extension
       THEN MimeTypes[CHOOSE n \in 1..Len(MimeTypes) : MimeTypes[n][1] = extension][2]
     ELSE IF extension \in InheritedNames THEN "function"
     ELSE OctetStream

\* the bytes of blobContent from offset `from` (counted from 0), at most n
BlobSlice(blobContent, from, n) ==
  SubSeq(blobContent, from + 1,
         IF from + n < Len(blobContent) THEN from + n ELSE Len(blobContent))

\* the first n bytes of header are the bytes of magic
HasMagic(header, magic) ==
  Len(header) >= Len(magic) /\ SubSeq(header, 1, Len(magic)) = magic

\* a detection that looks at a blob of any length
detectContentTypeFromBlob_anyLength(blobContent) ==
  LET header == BlobSlice(blobContent, 0, 12)
  IN IF HasMagic(header, <<255, 216, 255>>) THEN "image/jpeg"
     ELSE IF HasMagic(header, <<137, 80, 78, 71>>) THEN "image/png"
     ELSE IF HasMagic(header, <<71, 73, 70, 56>>) THEN "image/gif"
     ELSE IF /\ HasMagic(header, <<82, 73, 70, 70>>)
             /\ Len(blobContent) > 11
             /\ BlobSlice(blobContent, 8, 4) = <<87, 69, 66, 80>>
       THEN "image/webp"
     ELSE IF HasMagic(header, <<66, 77>>) THEN "image/bmp"
     ELSE IF HasMagic(header, <<37, 80, 68, 70>>) THEN "application/pdf"
     ELSE IF /\ Len(blobContent) > 11
             /\ HasMagic(BlobSlice(blobContent, 4, 8), <<102, 116, 121, 112>>)
       THEN "video/mp4"
     ELSE IF /\ HasMagic(header, <<80, 75>>)
             /\ Len(header) >= 4
             /\ <<header[3], header[4]>> \in {<<3, 4>>, <<5, 6>>, <<7, 8>>}
       THEN "application/zip"
     ELSE OctetStream

\* detectContentTypeFromBlob(blobContent)
detectContentTypeFromBlob(blobContent) ==
  IF Len(blobContent) < 8 THEN OctetStream
  ELSE detectContentTypeFromBlob_anyLength(blobContent)

\* loadFileData for a direct blob: the extension first, the content when
\* the extension gave application/octet-stream
ResolveContentType(fileName, blobContent) ==
  IF getContentTypeFromExtension(fileName) = OctetStream
    THEN detectContentTypeFromBlob(blobContent)
    ELSE getContentTypeFromExtension(fileName)

MediaNames ==
  {<<"a",".","j","p","g">>, <<"a",".","P","N","G">>, <<"a",".","x","y","z">>, <<"a">>, <<"a",".","c","o","n","s","t","r","u","c","t","o","r">>}

\* the first four bytes, the next four and the last four of a blob
BlobHeads ==
  {<<255, 216, 255, 224>>, <<137, 80, 78, 71>>, <<71, 73, 70, 56>>,
   <<82, 73, 70, 70>>, <<66, 77, 0, 0>>, <<37, 80, 68, 70>>, <<80, 75, 3, 4>>,
   <<80, 75, 5, 6>>, <<80, 75, 7, 8>>, <<80, 75, 0, 0>>, <<0, 0, 0, 0>>}

BlobMiddles == {<<102, 116, 121, 112>>, <<0, 0, 0, 0>>}

BlobTails == {<<87, 69, 66, 80>>, <<0, 0, 0, 0>>}

BlobLengths == {1, 4, 7, 8, 11, 12}

MediaBlobs ==
  {SubSeq(h \o m \o t, 1, n) :
     h \in BlobHeads, m \in BlobMiddles, t \in BlobTails, n \in BlobLengths}

MediaCall(fileName, blobContent, contentType, done) ==
  [op |-> "loadFileData", fileName |-> fileName, blobContent |-> blobContent,
   contentType |-> contentType, done |-> done]

LoadFileData ==
  /\ ~last.done
  /\ last' = MediaCall(last.fileName, last.blobContent,
                       ResolveContentType(last.fileName, last.blobContent), TRUE)
  /\ UNCHANGED <<store, cache, now, paths, recon>>

InitMedia ==
  /\ store = EmptyMap
  /\ cache = EmptyMap
  /\ now = 0
  /\ \E f \in MediaNames, b \in MediaBlobs : last = MediaCall(f, b, "", FALSE)
  /\ paths = {}
  /\ recon = ReconIdle

NextMedia == LoadFileData

SpecMedia == InitMedia /\ [][NextMedia]_vars

\* the extension is one of the table
KnownExtension(fileName) ==
  \E n \in 1..Len(MimeTypes) : MimeTypes[n][1] = getFileExtension(fileName)

\* the magic-number table: the types whose signature the blob carries
MagicTypes(b) ==
  {ty \in {"image/jpeg", "image/png", "image/gif", "image/bmp",
           "application/pdf", "application/zip", "image/webp", "video/mp4"} :
     CASE ty = "image/jpeg" -> HasMagic(b, <<255, 216, 255>>)
       [] ty = "image/png" -> HasMagic(b, <<137, 80, 78, 71>>)
       [] ty = "image/gif" -> HasMagic(b, <<71, 73, 70, 56>>)
       [] ty = "image/bmp" -> HasMagic(b, <<66, 77>>)
       [] ty = "application/pdf" -> HasMagic(b, <<37, 80, 68, 70>>)
       [] ty = "application/zip" ->
            \E tr \in {<<3, 4>>, <<5, 6>>, <<7, 8>>} : HasMagic(b, <<80, 75>> \o tr)
       [] ty = "image/webp" ->
            HasMagic(b, <<82, 73, 70, 70>>) /\ BlobSlice(b, 8, 4) = <<87, 69, 66, 80>>
       [] ty = "video/mp4" -> BlobSlice(b, 4, 4) = <<102, 116, 121, 112>>}

\* C38: a known extension decides the type; with an unknown extension a blob
\* that carries a signature of the magic-number table gets the type of a
\* signature it carries, and every other blob application/octet-stream.
C38_ContentTypeResolution ==
  last.done =>
    IF KnownExtension(last.fileName)
      THEN last.contentType = getContentTypeFromExtension(last.fileName)
    ELSE IF MagicTypes(last.blobContent) # {}
      THEN last.contentType \in MagicTypes(last.blobContent)
    ELSE last.contentType = OctetStream

\* ------------------------------------------------------------------------
\* PubkyClient.parsePubkyUrl and PubkyClient.isValidPubkyUrl
\* ------------------------------------------------------------------------

\* the value null of parsePubkyUrl
NoUrl == [isNull |-> TRUE, publicKey |-> <<>>, path |-> <<>>]

\* parsePubkyUrl(url)
parsePubkyUrl(url) ==
  IF ~StartsWith(url, PubkyScheme) THEN NoUrl
  ELSE LET urlWithoutScheme == SubSeq(url, 9, Len(url))
           firstSlashIndex == IndexOf(urlWithoutScheme, <<"/">>)
       IN IF firstSlashIndex = 0
            THEN [isNull |-> FALSE, publicKey |-> urlWithoutScheme, path |-> <<>>]
            ELSE [isNull |-> FALSE,
                  publicKey |-> SubSeq(urlWithoutScheme, 1, firstSlashIndex - 1),
                  path |-> SubSeq(urlWithoutScheme, firstSlashIndex + 1,
                                  Len(urlWithoutScheme))]

\* isValidPubkyUrl(url)
isValidPubkyUrl(url) ==
  StartsWith(url, PubkyScheme) /\ ~parsePubkyUrl(url).isNull

UrlSchemes == {PubkyScheme, <<"h","t","t","p","s",":","/","/">>, <<"p","u","b","k","y",":","/">>}

UrlOwners == {<<"a","b","c","1","2","3">>, <<"x","y","z","7","8","9">>, <<"a","-","b">>, <<>>}

UrlPaths ==
  {<<>>, <<"/">>, <<"/","p","u","b","/">>, <<"/","p","u","b">>, <<"/","p","u","b","/","t","e","s","t",".","t","x","t">>, <<"/","p","r","i","v","a","t","e","/","t","e","s","t",".","t","x","t">>, <<"/","p","u","b","/","f","o","l","d","e","r","/","f","i","l","e",".","m","d">>, <<"/","p","u","b","l","i","c","/","x">>}

UrlInputs == {s \o o \o p : s \in UrlSchemes, o \in UrlOwners, p \in UrlPaths}

UrlCall(url, valid, done) ==
  [op |-> "isValidPubkyUrl", url |-> url, valid |-> valid, done |-> done]

IsValidPubkyUrl ==
  /\ ~last.done
  /\ last' = UrlCall(last.url, isValidPubkyUrl(last.url), TRUE)
  /\ UNCHANGED <<store, cache, now, paths, recon>>

InitUrl ==
  /\ store = EmptyMap
  /\ cache = EmptyMap
  /\ now = 0
  /\ \E url \in UrlInputs : last = UrlCall(url, FALSE, FALSE)
  /\ paths = {}
  /\ recon = ReconIdle

NextUrl == IsValidPubkyUrl

SpecUrl == InitUrl /\ [][NextUrl]_vars

IsAlphanumeric(ch) ==
  \/ IsDigit(ch)
  \/ \E n \in 1..26 : ch = UpperCase[n] \/ ch = LowerCase[n]

\* the form pubky://<alphanumeric owner>/pub/<rest>
HasPubkyForm(url) ==
  /\ StartsWith(url, PubkyScheme)
  /\ \E n \in 1..(Len(url) - 8) :
       /\ \A i \in 9..(8 + n) : IsAlphanumeric(url[i])
       /\ StartsWith(SubSeq(url, 9 + n, Len(url)), <<"/","p","u","b","/">>)

\* C40: isValidPubkyUrl accepts exactly the URLs of the form
\* pubky://<alphanumeric owner>/pub/<rest>.
C40_ValidExactlyPubkyForm ==
  last.done => (last.valid <=> HasPubkyForm(last.url))

\* ------------------------------------------------------------------------
\* Text and binary writes on the same keys, one call after the other
\* ------------------------------------------------------------------------

\* createBinaryFile: the parent pattern is invalidated, the entry of
\* filePath is left as it was
createBinaryFile(filePath, data, o) ==
  /\ last = Idle
  /\ \E r \in {CreateBinaryFileRun(store, cache, filePath, data, o)} :
       /\ store' = r.store
       /\ cache' = r.cache
       /\ last' = r.call
       /\ UNCHANGED <<now, paths, recon>>

\* updateBinaryFile run on store s: the cache is not touched
UpdateBinaryFileRun(s, c, filePath, data, o) ==
  [store |-> PutStore(s, filePath, data, o),
   cache |-> c,
   call |-> Call("updateBinaryFile", filePath, data, FALSE, o, PutResult(o),
                 NullV, <<"put">>, FALSE)]

updateBinaryFile(filePath, data, o) ==
  /\ last = Idle
  /\ \E r \in {UpdateBinaryFileRun(store, cache, filePath, data, o)} :
       /\ store' = r.store
       /\ cache' = r.cache
       /\ last' = r.call
       /\ UNCHANGED <<now, paths, recon>>

\* the bytes "y" and "yy"
BinaryContents == {<<121>>, <<121, 121>>}

ContentCreateFile ==
  \E p \in paths, c \in OpsContents, o \in WriteOutcomes : createFile(p, c, o)
ContentUpdateFile ==
  \E p \in paths, c \in OpsContents, o \in WriteOutcomes : updateFile(p, c, o)
ContentDeleteFile ==
  \E p \in paths, o \in WriteOutcomes : deleteFile(p, o)
ContentReadFile ==
  \E p \in paths, u \in BOOLEAN, o \in ReadOutcomes : readFile(p, u, o)
CreateBinaryFile ==
  \E p \in paths, b \in BinaryContents, o \in WriteOutcomes :
    createBinaryFile(p, b, o)
UpdateBinaryFile ==
  \E p \in paths, b \in BinaryContents, o \in WriteOutcomes :
    updateBinaryFile(p, b, o)
ContentReturn ==
  /\ last # Idle
  /\ last' = Idle
  /\ UNCHANGED <<store, cache, now, paths, recon>>

InitContent ==
  /\ store = EmptyMap
  /\ cache = EmptyMap
  /\ now = 0
  /\ last = Idle
  /\ paths = OpsPaths
  /\ recon = ReconIdle

NextContent ==
  \/ ContentCreateFile \/ ContentUpdateFile \/ ContentDeleteFile
  \/ ContentReadFile \/ CreateBinaryFile \/ UpdateBinaryFile \/ ContentReturn

SpecContent == InitContent /\ [][NextContent]_vars

\* the readFile(p, useCache=true) that would run next is answered by the cache
CacheHit(p) ==
  NextRead(p, TRUE).ok /\ NextRead(p, TRUE).calls = <<>>

\* C31: between two calls, a cache hit of readFile(p, useCache=true) equals
\* the content the store currently holds for p.
C31_ContentCoherence ==
  \A p \in paths :
    (last = Idle /\ CacheHit(p)) =>
      /\ p \in DOMAIN store
      /\ NextRead(p, TRUE).value = Text(DecodeContent(store[p]))

====
